---------------------------- MODULE Spec2Model ----------------------------
(***************************************************************************)
(* Token table, fetch cycle, metadata enrichment, cleanup, listing and     *)
(* scoring of fwaltrick/token-analyzer (apps/api TokenDataService and the  *)
(* token-details page).                                                    *)
(*                                                                         *)
(* The repository holds four revisions of TokenDataService:                *)
(*   "v1"  src/apps/api/src/token-data/token-data.service.ts (first class) *)
(*   "v2"  the second class of that file; of it only clearOldTokens, the   *)
(*         deleteMany({}) of onModuleInit, is modelled                     *)
(*   "p3"  src/unnamed/part_003 (the revision the controller with          *)
(*         process-missing-images belongs to)                              *)
(*   "p4"  src/unnamed/part_004 (price-provider revision, prisma upsert)   *)
(* The variable rev fixes which revision a behaviour runs.                 *)
(*                                                                         *)
(* Units: priceUsd is kept in micro-dollars (0.001 USD = 1000), volume24h  *)
(* and marketCap in whole dollars, virtual_token_reserves in millions of   *)
(* tokens, time in days.                                                   *)
(***************************************************************************)
EXTENDS Integers, Sequences, FiniteSets, TLC

VARIABLES
  rev,        \* revision of TokenDataService that is running
  now,        \* Date.now(), in days
  store,      \* the Token table: a set of rows
  nextId,     \* per address: number of the next row created for it (Token.id)
  pc,         \* per fetch cycle: "idle" | "find" | "write"
  batch,      \* per fetch cycle: the tokens array being processed
  idx,        \* per fetch cycle: position of the for-loop in tokens
  existing,   \* per fetch cycle: result of the findUnique existence check
  tried,      \* per fetch cycle: the sources the running cycle asked, and
              \* how its source selection ended
  ipfs,       \* v1: IPFS metadata requests of the socket listener in flight
  timers,     \* v1: scheduled setTimeout(2000) database updates
  jobs,       \* p3: processIPFSMetadataAsync invocations in progress
  rpc,        \* p3: processTokensWithMissingImages: "idle" | "loop"
  rsnap,      \* p3: tokensWithoutImages still to be processed (stale rows)
  cpc,        \* clearOldTokens: "idle" | "step2" | "step3"
  csnap,      \* the table as the running, undisturbed cleanup found it
  cdirty,     \* whether a row was written while the cleanup was running
  lastCand,   \* per address: the candidate the fetch cycle wrote last, and
              \* whether that write repeated the one before it
  query,      \* listing: limit, sortBy, sortOrder of the client's requests
  result,     \* listing: the answers to the pages 1, 2, ... fetched so far
  subject,    \* scoring: the record handed to the scoring functions
  verdict,    \* scoring: the scores and label computed for subject
  listener,   \* fetchDirectFromPumpFun: the socket, the tokens collected,
              \* the promise and the 30 s timer of the running session
  reply,      \* controller: the request being served and its answer
  stats,      \* analyzeMemecoins: the analysis computed last
  mfetch,     \* fetchTokenMetadataFromIPFS: the call in progress
  insight,    \* PatternAnalyzerService: the analysis computed last
  image       \* TokenImage: the component's props, state and callbacks

vars == <<rev, now, store, nextId, pc, batch, idx, existing, tried, ipfs,
          timers,
          jobs, rpc, rsnap, cpc, csnap, cdirty, lastCand, query,
          result, subject, verdict, listener, reply, stats, mfetch, insight,
          image>>

storeVars == <<store, nextId, lastCand>>
cleanVars == <<cpc, csnap, cdirty>>
cycleVars == <<pc, batch, idx, existing, tried>>
metaVars  == <<ipfs, timers, jobs, rpc, rsnap>>
pureVars  == <<query, result, subject, verdict>>
ioVars    == <<listener, reply, stats>>
uiVars    == <<mfetch, insight, image>>

---------------------------------------------------------------------------
(* Bounds of the model *)

MaxBatch == 2     \* longest tokens array a source hands to a fetch cycle
MaxDay == 1       \* last day the clock of the write-path specification reaches
MaxTimers == 1    \* scheduled metadata updates / async jobs held at once
MaxId == 2        \* rows created for one address in one behaviour

(* Program constants *)

solPrice == 150                 \* calculateTokenPrice: SOL price in USD
FallbackPriceMicro == 1         \* calculateTokenPrice: 0.000001 USD

Null == "<null>"                \* JavaScript null / undefined
Revisions == {"v1", "p3", "p4"}
Cycles == {"cron", "manual"}
Addr == {"a1", "a2"}
SocketAddr == {"a1"}            \* mints the socket feed announces
ExplorerAddr == {"a1"}          \* addresses of the explorer's token list

Truthy(s) == s \notin {"", Null}            \* JS truthiness of a string
OrElse(s, d) == IF Truthy(s) THEN s ELSE d  \* s || d
NumOr(x, d) == IF x # 0 THEN x ELSE d       \* x || d on numbers

---------------------------------------------------------------------------
(* Candidates: the token objects a source hands to the fetch cycle *)

Cand(m, nm, sym, desc, img, u, mc, umc, sol, tok) ==
  [mint |-> m, name |-> nm, symbol |-> sym, description |-> desc,
   image_uri |-> img, uri |-> u, market_cap |-> mc, usd_market_cap |-> umc,
   virtual_sol_reserves |-> sol, virtual_token_reserves |-> tok]

\* tokens the socket listener builds: from a create message carrying a
\* uri (v1 also reads the image of the message, p3 leaves image_uri empty)
\* and from a trade message (no uri, random reserves)
SocketCandsOf(r) ==
  UNION {{ Cand(m, "Tok", "TK", "desc", IF r = "v1" THEN "img" ELSE "",
                "ipfs://u", 2000000, 2000000, 6000000, 1),
           Cand(m, "Tok", "TK", "Active trading token: Tok", "", Null,
                500, 500, 600, 1) }
         : m \in SocketAddr}

SocketCands == SocketCandsOf("v1") \cup SocketCandsOf("p3")

\* tokens built by fetchFromSolanaExplorer: no uri, image from logoURI
ExplorerCands ==
  {Cand(m, "Dog", "DG", "Solana memecoin - Dog", "logo", Null, 0, 0, 200, 1)
     : m \in ExplorerAddr}

Candidates == SocketCands \cup ExplorerCands

BatchesOf(S) == UNION {[1..n -> S] : n \in 0..MaxBatch}

\* calculateTokenPrice: (sol / tokens) * solPrice, in micro-dollars (the
\* token reserves being counted in millions)
calculateTokenPrice(token) ==
  IF token.virtual_sol_reserves # 0 /\ token.virtual_token_reserves # 0
  THEN (token.virtual_sol_reserves * solPrice) \div token.virtual_token_reserves
  ELSE FallbackPriceMicro

\* token.virtual_sol_reserves * 0.1 (the reserves of the model are multiples of 10)
estimateVolume(token) == token.virtual_sol_reserves \div 10

\* token.usd_market_cap || token.market_cap || 0
candMarketCap(token) == NumOr(token.usd_market_cap, NumOr(token.market_cap, 0))

---------------------------------------------------------------------------
(* Off-chain metadata documents *)

Doc(img, desc, tw, tg, web, nm, sym) ==
  [image |-> img, description |-> desc, twitter |-> tw, telegram |-> tg,
   website |-> web, name |-> nm, symbol |-> sym]

MetaDocs ==
  { Doc("ipfsimg", "ipfsdesc", "tw", "tg", "web", "Meta", "MT"),
    Doc(Null, Null, "tw", Null, Null, Null, Null) }

NoDoc == [image |-> Null]     \* fetchTokenMetadataFromIPFS returned null

---------------------------------------------------------------------------
(* The Token table *)

EnrichmentFields == {"imageUrl", "description", "twitter", "telegram", "website"}

NoRow == [id |-> <<>>]

\* a fresh primary key (the source generates a cuid)
FreshId(a) == <<a, nextId[a]>>

Rows(a) == {r \in store : r.address = a}

\* prisma.token.findUnique({ where: { address } })
findUnique(a) == IF Rows(a) = {} THEN NoRow ELSE CHOOSE r \in Rows(a) : TRUE

\* getTokenByAddress
getTokenByAddress(a) == findUnique(a)

\* Token_address_key: whether a create for address a is rejected (P2002)
NoAddressKey(a) == FALSE     \* a table without the unique index
AddressTaken(a) == findUnique(a) # NoRow

NoCand == [cand |-> [mint |-> Null], twice |-> FALSE]

\* lastCand after token was written over the row cur (NoRow: created)
Written(a, token, cur) ==
  [lastCand EXCEPT ![a] = [cand |-> token,
                           twice |-> cur # NoRow /\ lastCand[a].cand = token]]

---------------------------------------------------------------------------
(* Fetch cycle: fetchAndStoreLatestTokens (v1, p3) *)

\* outcome of a source: resolved with tokens, or rejected
SocketOutcomes(r) ==
  {[ok |-> TRUE, tokens |-> b] : b \in BatchesOf(SocketCandsOf(r))}
    \cup {[ok |-> FALSE, tokens |-> <<>>]}
ExplorerOutcomes ==
  {[ok |-> TRUE, tokens |-> b] : b \in BatchesOf(ExplorerCands)}
    \cup {[ok |-> FALSE, tokens |-> <<>>]}

\* the nested try/catch choosing the tokens of the cycle; fetchViaPuppeteer
\* of v1 always throws, so both revisions go on to fetchFromSolanaExplorer
SelectTokens(sock, expl) ==
  IF sock.ok /\ Len(sock.tokens) > 0 THEN sock.tokens
  ELSE IF expl.ok THEN expl.tokens
  ELSE <<>>

UsedSocket(sock) == sock.ok /\ Len(sock.tokens) > 0

NoTry == [socket |-> "untried", explorer |-> "untried", ended |-> "idle"]

\* how the selection ends: with tokens to process, with the return on an
\* empty tokens array, or with 'All token data sources failed' thrown into
\* the outer catch, which logs it
SelectionEndRethrown(sock, expl) ==     \* an outer catch that throws again
  IF SelectTokens(sock, expl) # <<>> THEN "processing"
  ELSE IF ~UsedSocket(sock) /\ ~expl.ok THEN "raised"
  ELSE "returned"
SelectionEnd(sock, expl) ==
  IF SelectTokens(sock, expl) # <<>> THEN "processing"
  ELSE IF ~UsedSocket(sock) /\ ~expl.ok THEN "logged"
  ELSE "returned"

\* which sources the nested try/catch asked and what each gave: the
\* explorer is asked in the catch of the socket source only
Attempt(sock, expl) ==
  [socket |-> IF UsedSocket(sock) THEN "tokens" ELSE "none",
   explorer |-> IF UsedSocket(sock) THEN "untried"
                ELSE IF ~expl.ok THEN "failed"
                ELSE IF Len(expl.tokens) > 0 THEN "tokens" ELSE "empty",
   ended |-> SelectionEnd(sock, expl)]


\* the row prisma.token.create writes in the fetch cycle; doc is the IPFS
\* metadata p3 fetches before saving (NoDoc when absent, failed, or v1)
NewRow(token, doc, id) ==
  [id |-> id,
   address |-> token.mint,
   name |-> token.name,
   symbol |-> token.symbol,
   imageUrl |-> IF doc # NoDoc /\ Truthy(doc.image) THEN doc.image
                ELSE OrElse(token.image_uri, ""),
   description |-> IF doc # NoDoc /\ Truthy(doc.description)
                   THEN doc.description
                   ELSE OrElse(token.description,
                               token.name \o " - Pump.fun memecoin"),
   uri |-> OrElse(token.uri, Null),
   twitter |-> IF doc # NoDoc THEN OrElse(doc.twitter, Null) ELSE Null,
   telegram |-> IF doc # NoDoc THEN OrElse(doc.telegram, Null) ELSE Null,
   website |-> IF doc # NoDoc THEN OrElse(doc.website, Null) ELSE Null,
   priceUsd |-> calculateTokenPrice(token),
   volume24h |-> estimateVolume(token),
   marketCap |-> candMarketCap(token),
   createdAt |-> now,
   updatedAt |-> now]

\* an update branch that forgets the market cap
UpdatedRowKeepCap(old, token) ==
  [old EXCEPT !.priceUsd = calculateTokenPrice(token),
              !.volume24h = estimateVolume(token),
              !.updatedAt = now]

\* an update that also takes the name and the symbol of the candidate
UpdatedRowRenamed(old, token) ==
  [old EXCEPT !.name = token.name,
              !.symbol = token.symbol,
              !.priceUsd = calculateTokenPrice(token),
              !.volume24h = estimateVolume(token),
              !.marketCap = candMarketCap(token),
              !.updatedAt = now]

\* the row after the update branch of the fetch cycle
UpdatedRow(old, token) ==
  [old EXCEPT !.priceUsd = calculateTokenPrice(token),
              !.volume24h = estimateVolume(token),
              !.marketCap = candMarketCap(token),
              !.updatedAt = now]

\* an update that leaves the previous version of the row in the table
ReplaceKeepingOld(old, new) == store \cup {new}

\* prisma.token.update: the row is replaced in place
Replace(old, new) == (store \ {old}) \cup {new}

\* a write to the table while clearOldTokens is between two of its deletes
Dirty == cdirty \/ cpc # "idle"

\* the snapshot of the running cleanup is kept while no write has disturbed it
Undisturbed == IF cdirty' THEN {} ELSE csnap

CycleDone(c) ==
  /\ pc' = [pc EXCEPT ![c] = "idle"]
  /\ batch' = [batch EXCEPT ![c] = <<>>]
  /\ idx' = [idx EXCEPT ![c] = 0]
  /\ existing' = [existing EXCEPT ![c] = FALSE]
  /\ tried' = [tried EXCEPT ![c] = NoTry]

CycleAdvance(c) ==
  IF idx[c] = Len(batch[c])
  THEN CycleDone(c)
  ELSE /\ pc' = [pc EXCEPT ![c] = IF rev = "p4" THEN "write" ELSE "find"]
       /\ idx' = [idx EXCEPT ![c] = idx[c] + 1]
       /\ existing' = [existing EXCEPT ![c] = FALSE]
       /\ UNCHANGED <<batch, tried>>

\* fetchAndStoreLatestTokens up to the start of the for-loop: the sources
\* are asked in turn; the listener has started one IPFS request (v1) or one
\* processIPFSMetadataAsync (p3) per create message that carried a uri
FetchStartWith(c, SockSet, ExplSet) ==
  /\ rev \in {"v1", "p3"}
  /\ pc[c] = "idle"
  /\ \A a \in Addr : nextId[a] <= MaxId
  /\ {q \in ipfs : q.cyc = c} = {}
  /\ \E sock \in SockSet, expl \in ExplSet :
       LET tokens == SelectTokens(sock, expl)
           withUri == IF UsedSocket(sock)
                      THEN {i \in 1..Len(tokens) : Truthy(tokens[i].uri)}
                      ELSE {}
       IN /\ tried' = [tried EXCEPT ![c] = Attempt(sock, expl)]
          /\ IF tokens = <<>>
             THEN UNCHANGED <<pc, batch, idx, existing>>
             ELSE /\ pc' = [pc EXCEPT ![c] = "find"]
                  /\ batch' = [batch EXCEPT ![c] = tokens]
                  /\ idx' = [idx EXCEPT ![c] = 1]
                  /\ UNCHANGED existing
          /\ ipfs' = IF rev = "v1"
                     THEN ipfs \cup {[cyc |-> c, i |-> i,
                                      mint |-> tokens[i].mint,
                                      name |-> tokens[i].name] : i \in withUri}
                     ELSE ipfs
          /\ jobs' = IF rev = "p3"
                     THEN jobs \cup {[mint |-> tokens[i].mint,
                                      phase |-> "fetch",
                                      data |-> NoDoc] : i \in withUri}
                     ELSE jobs
  /\ UNCHANGED <<uiVars, rev, now, storeVars, timers, rpc, rsnap, cleanVars, pureVars, ioVars>>

FetchStart(c) == FetchStartWith(c, SocketOutcomes(rev), ExplorerOutcomes)

\* the existence check of the for-loop
FindUnique(c) ==
  /\ rev \in {"v1", "p3"}
  /\ pc[c] = "find"
  /\ existing' = [existing EXCEPT
                    ![c] = findUnique(batch[c][idx[c]].mint) # NoRow]
  /\ pc' = [pc EXCEPT ![c] = "write"]
  /\ UNCHANGED <<uiVars, rev, now, storeVars, batch, idx, tried, metaVars, cleanVars,
                 pureVars, ioVars>>

\* the create / update branch of the for-loop.  create on an address that
\* is present violates Token_address_key (P2002), update of an absent row
\* fails (P2025): either error leaves the loop through the outer catch.
CycleWrite(c) ==
  /\ rev \in {"v1", "p3"}
  /\ pc[c] = "write"
  /\ LET token == batch[c][idx[c]]
         cur == findUnique(token.mint)
     IN IF ~existing[c]
        THEN \E doc \in IF rev = "p3" /\ Truthy(token.uri)
                        THEN MetaDocs \cup {NoDoc} ELSE {NoDoc} :
               IF AddressTaken(token.mint)
               THEN /\ CycleDone(c)
                    /\ UNCHANGED <<storeVars, cdirty>>
               ELSE /\ store' = store \cup
                                {NewRow(token, doc, FreshId(token.mint))}
                    /\ nextId' = [nextId EXCEPT ![token.mint] = @ + 1]
                    /\ lastCand' = Written(token.mint, token, NoRow)
                    /\ cdirty' = Dirty
                    /\ CycleAdvance(c)
        ELSE IF cur = NoRow
             THEN /\ CycleDone(c)
                  /\ UNCHANGED <<storeVars, cdirty>>
             ELSE /\ store' = Replace(cur, UpdatedRow(cur, token))
                  /\ lastCand' = Written(token.mint, token, cur)
                  /\ cdirty' = Dirty
                  /\ CycleAdvance(c)
                  /\ UNCHANGED nextId
  /\ UNCHANGED <<uiVars, rev, now, metaVars, cpc, pureVars, ioVars>>
  /\ csnap' = Undisturbed

---------------------------------------------------------------------------
(* v1: IPFS metadata of the socket listener and its delayed update *)

\* .then of fetchTokenMetadataFromIPFS in the create branch of the listener:
\* the token object is patched and the database update is scheduled
IpfsResolved(q) ==
  /\ rev = "v1"
  /\ q \in ipfs
  /\ ipfs' = ipfs \ {q}
  /\ \E doc \in MetaDocs \cup {NoDoc} :
       IF doc = NoDoc
       THEN UNCHANGED <<batch, timers>>
       ELSE /\ Cardinality(timers) < MaxTimers
            /\ batch' = IF pc[q.cyc] = "idle" THEN batch
                        ELSE [batch EXCEPT ![q.cyc][q.i] =
                                [@ EXCEPT !.name = OrElse(doc.name, @),
                                          !.symbol = OrElse(doc.symbol, @),
                                          !.image_uri = OrElse(doc.image, @),
                                          !.description =
                                             OrElse(doc.description, @)]]
            /\ timers' = timers \cup {[mint |-> q.mint, doc |-> doc,
                                       name |-> OrElse(doc.name, q.name)]}
  /\ UNCHANGED <<uiVars, rev, now, storeVars, pc, idx, existing, tried, jobs, rpc,
                 rsnap, cleanVars, pureVars, ioVars>>

\* the row after the update the timer performs
TimerRow(old, t) ==
  [old EXCEPT !.imageUrl = OrElse(t.doc.image, ""),
              !.description = OrElse(t.doc.description,
                                     t.name \o " - Pump.fun memecoin"),
              !.twitter = OrElse(t.doc.twitter, Null),
              !.telegram = OrElse(t.doc.telegram, Null),
              !.website = OrElse(t.doc.website, Null),
              !.updatedAt = now]

\* setTimeout(..., 2000): prisma.token.update, errors ignored
TimerFires(t) ==
  /\ rev = "v1"
  /\ t \in timers
  /\ timers' = timers \ {t}
  /\ LET cur == findUnique(t.mint)
     IN IF cur = NoRow
        THEN UNCHANGED <<store, cdirty>>
        ELSE /\ store' = Replace(cur, TimerRow(cur, t))
             /\ cdirty' = Dirty
  /\ UNCHANGED <<uiVars, rev, now, nextId, lastCand, cycleVars, ipfs, jobs, rpc,
                 rsnap, cpc, pureVars, ioVars>>
  /\ csnap' = Undisturbed

---------------------------------------------------------------------------
(* p3: processIPFSMetadataAsync and processTokensWithMissingImages *)

\* updateData of processIPFSMetadataAsync: a field is set only when the
\* document has it (and, for the image, when validateImageUrl accepted it)
UpdateData(doc, valid) ==
  Doc(IF valid THEN OrElse(doc.image, Null) ELSE Null,
      OrElse(doc.description, Null), OrElse(doc.twitter, Null),
      OrElse(doc.telegram, Null), OrElse(doc.website, Null),
      OrElse(doc.name, Null), Null)

EmptyData(d) ==
  ~(Truthy(d.image) \/ Truthy(d.description) \/ Truthy(d.twitter)
      \/ Truthy(d.telegram) \/ Truthy(d.website) \/ Truthy(d.name))

\* prisma.token.update({ data: updateData })
ApplyData(old, d) ==
  [old EXCEPT !.imageUrl = OrElse(d.image, @),
              !.description = OrElse(d.description, @),
              !.twitter = OrElse(d.twitter, @),
              !.telegram = OrElse(d.telegram, @),
              !.website = OrElse(d.website, @),
              !.name = OrElse(d.name, @),
              !.updatedAt = now]

\* processIPFSMetadataAsync up to its first update
JobRun(j) ==
  /\ rev = "p3"
  /\ j \in jobs
  /\ j.phase = "fetch"
  /\ \E doc \in MetaDocs \cup {NoDoc}, valid \in BOOLEAN :
       LET d == IF doc = NoDoc THEN NoDoc ELSE UpdateData(doc, valid)
           cur == findUnique(j.mint)
       IN IF doc = NoDoc \/ EmptyData(d)
          THEN /\ jobs' = jobs \ {j}
               /\ UNCHANGED <<store, cdirty>>
          ELSE IF cur = NoRow
               THEN /\ jobs' = (jobs \ {j}) \cup
                         {[mint |-> j.mint, phase |-> "retry", data |-> d]}
                    /\ UNCHANGED <<store, cdirty>>
               ELSE /\ jobs' = jobs \ {j}
                    /\ store' = Replace(cur, ApplyData(cur, d))
                    /\ cdirty' = Dirty
  /\ UNCHANGED <<uiVars, rev, now, nextId, lastCand, cycleVars, ipfs, timers, rpc,
                 rsnap, cpc, pureVars, ioVars>>
  /\ csnap' = Undisturbed

\* the second update, after delay(2000)
JobRetry(j) ==
  /\ rev = "p3"
  /\ j \in jobs
  /\ j.phase = "retry"
  /\ jobs' = jobs \ {j}
  /\ LET cur == findUnique(j.mint)
     IN IF cur = NoRow
        THEN UNCHANGED <<store, cdirty>>
        ELSE /\ store' = Replace(cur, ApplyData(cur, j.data))
             /\ cdirty' = Dirty
  /\ UNCHANGED <<uiVars, rev, now, nextId, lastCand, cycleVars, ipfs, timers, rpc,
                 rsnap, cpc, pureVars, ioVars>>
  /\ csnap' = Undisturbed

ReprocessTake == 20

Min(a, b) == IF a < b THEN a ELSE b

MissingImage(r) == Truthy(r.uri) /\ ~Truthy(r.imageUrl)

\* what the loop reads of a row the findMany returned
Stale(r) ==
  [id |-> r.id, address |-> r.address, uri |-> r.uri, imageUrl |-> r.imageUrl,
   description |-> r.description, twitter |-> r.twitter,
   telegram |-> r.telegram, website |-> r.website]

\* findMany with take: k and no orderBy: any k of the matching rows, or
\* all of them when there are no more than k
RECURSIVE Drop(_, _)
Drop(S, m) == IF m = 0 THEN {S} ELSE UNION {Drop(S \ {x}, m - 1) : x \in S}
Take(S, k) == Drop(S, IF Cardinality(S) > k THEN Cardinality(S) - k ELSE 0)

\* processTokensWithMissingImages: the findMany
ReprocessStart ==
  /\ rev = "p3"
  /\ rpc = "idle"
  /\ LET found == {r \in store : MissingImage(r)}
     IN \E S \in Take(found, ReprocessTake) :
          /\ rsnap' = {Stale(r) : r \in S}
          /\ rpc' = IF S = {} THEN "idle" ELSE "loop"
  /\ UNCHANGED <<uiVars, rev, now, storeVars, cycleVars, ipfs, timers, jobs,
                 cleanVars, pureVars, ioVars>>

\* the row written for a token of the findMany result
ReprocessRow(old, token, doc) ==
  [old EXCEPT !.imageUrl = OrElse(doc.image, token.imageUrl),
              !.description = OrElse(doc.description, token.description),
              !.twitter = OrElse(doc.twitter, token.twitter),
              !.telegram = OrElse(doc.telegram, token.telegram),
              !.website = OrElse(doc.website, token.website),
              !.updatedAt = now]

\* the body of the loop over tokensWithoutImages, for one token and the
\* document fetchTokenMetadataFromIPFS returned for its uri
ReprocessToken(token, doc) ==
  /\ rev = "p3"
  /\ rpc = "loop"
  /\ token \in rsnap
  /\ LET hit == {r \in store : r.id = token.id}
     IN /\ rsnap' = rsnap \ {token}
        /\ rpc' = IF rsnap' = {} THEN "idle" ELSE "loop"
        /\ IF doc # NoDoc /\ (Truthy(doc.image) \/ Truthy(doc.description)
                                \/ Truthy(doc.twitter))
           THEN IF hit = {}
                THEN UNCHANGED <<store, cdirty>>
                ELSE LET cur == CHOOSE r \in hit : TRUE
                     IN /\ store' = Replace(cur, ReprocessRow(cur, token, doc))
                        /\ cdirty' = Dirty
           ELSE UNCHANGED <<store, cdirty>>
  /\ UNCHANGED <<uiVars, rev, now, nextId, lastCand, cycleVars, ipfs, timers, jobs,
                 cpc, pureVars, ioVars>>
  /\ csnap' = Undisturbed

\* one iteration of the loop, for any token of the findMany result
ReprocessStep ==
  \E token \in rsnap, doc \in MetaDocs \cup {NoDoc} : ReprocessToken(token, doc)

---------------------------------------------------------------------------
(* p4: fetchAndSaveTokenList, the price-provider upsert *)

\* the tracked tokens (the source lists eight of them)
knownPumpTokens ==
  << [address |-> "a1", name |-> "PUMP Token", symbol |-> "PUMP"],
     [address |-> "a2", name |-> "Bonk", symbol |-> "BONK"] >>

NoPrice == [usdPrice |-> -1]      \* fetchPumpFunTokenPrice returned null
PriceData ==
  { [usdPrice |-> 0, exchangeName |-> Null],
    [usdPrice |-> 500, exchangeName |-> "Raydium"] }

NoMeta == [logo |-> Null]         \* fetchTokenMetadata returned null
MetadataData ==
  { [logo |-> "logo", image |-> Null, description |-> "mdesc"],
    [logo |-> Null, image |-> "img", description |-> Null] }

VolumeData == {0, 70000}

\* imageUrl extracted from the metadata: logo, else image, else null
p4Image(meta) ==
  IF meta = NoMeta THEN Null
  ELSE IF Truthy(meta.logo) THEN meta.logo
  ELSE IF Truthy(meta.image) THEN meta.image
  ELSE Null

p4Description(meta, price) ==
  IF meta # NoMeta /\ Truthy(meta.description) THEN meta.description
  ELSE "Token from Pump.fun (" \o OrElse(price.exchangeName, "DEX") \o ")"

\* priceData.usdPrice * 1000000, in dollars
estimatedMarketCap(price) == (price.usdPrice * 1000000) \div 1000000

\* the create part of prisma.token.upsert
p4Create(info, price, meta, vol, id) ==
  [id |-> id, address |-> info.address, name |-> info.name,
   symbol |-> info.symbol, imageUrl |-> p4Image(meta),
   description |-> p4Description(meta, price), uri |-> Null,
   twitter |-> Null, telegram |-> Null, website |-> Null,
   priceUsd |-> NumOr(price.usdPrice, 0), volume24h |-> NumOr(vol, 0),
   marketCap |-> estimatedMarketCap(price), createdAt |-> now,
   updatedAt |-> now]

\* the update part of prisma.token.upsert
p4Update(old, price, meta, vol) ==
  [old EXCEPT !.priceUsd = NumOr(price.usdPrice, 0),
              !.marketCap = estimatedMarketCap(price),
              !.volume24h = NumOr(vol, 0),
              !.imageUrl = p4Image(meta),
              !.description = p4Description(meta, price),
              !.updatedAt = now]

P4Start(c) ==
  /\ rev = "p4"
  /\ pc[c] = "idle"
  /\ \A a \in Addr : nextId[a] <= MaxId
  /\ pc' = [pc EXCEPT ![c] = "write"]
  /\ batch' = [batch EXCEPT ![c] = knownPumpTokens]
  /\ idx' = [idx EXCEPT ![c] = 1]
  /\ UNCHANGED <<uiVars, rev, now, storeVars, existing, tried, metaVars, cleanVars,
                 pureVars, ioVars>>

\* one iteration of the loop over knownPumpTokens
P4Upsert(c) ==
  /\ rev = "p4"
  /\ pc[c] = "write"
  /\ \E price \in PriceData \cup {NoPrice},
        meta \in MetadataData \cup {NoMeta}, vol \in VolumeData :
       LET info == batch[c][idx[c]]
           cur == findUnique(info.address)
           cand == [mint |-> info.address, price |-> price, meta |-> meta,
                    volume |-> vol]
       IN IF price = NoPrice
          THEN UNCHANGED <<storeVars, cdirty>>
          ELSE /\ IF cur = NoRow
                  THEN /\ store' = store \cup
                            {p4Create(info, price, meta, vol,
                                      FreshId(info.address))}
                       /\ nextId' = [nextId EXCEPT ![info.address] = @ + 1]
                  ELSE /\ store' = Replace(cur, p4Update(cur, price, meta, vol))
                       /\ UNCHANGED nextId
               /\ lastCand' = Written(info.address, cand, cur)
               /\ cdirty' = Dirty
  /\ CycleAdvance(c)
  /\ UNCHANGED <<uiVars, rev, now, metaVars, cpc, pureVars, ioVars>>
  /\ csnap' = Undisturbed

---------------------------------------------------------------------------
(* clearOldTokens (v1, p3) and the clock *)

VeryOldDays == 30     \* thirtyDaysAgo
NoImageDays == 7      \* sevenDaysAgo
DeadDays == 3         \* threeDaysAgo
LowCapLimit == 1000   \* marketCap: { lt: 1000 }

Age(r) == now - r.createdAt

\* where-clauses of the three deleteMany calls
VeryOld(r) == Age(r) > VeryOldDays
OldWithoutImageAnyCap(r) ==     \* the second delete without its cap test
  /\ Age(r) > NoImageDays
  /\ ~Truthy(r.imageUrl)
OldWithoutImage(r) ==
  /\ Age(r) > NoImageDays
  /\ ~Truthy(r.imageUrl)
  /\ r.marketCap < LowCapLimit
Dead(r) == Age(r) > DeadDays /\ r.marketCap <= 0

CleanupDelete1 ==
  /\ rev \in {"v1", "p3"}
  /\ cpc = "idle"
  /\ csnap' = store
  /\ cdirty' = FALSE
  /\ store' = {r \in store : ~VeryOld(r)}
  /\ cpc' = "step2"
  /\ UNCHANGED <<uiVars, rev, now, nextId, lastCand, cycleVars, metaVars, pureVars, ioVars>>

CleanupDelete2 ==
  /\ cpc = "step2"
  /\ store' = {r \in store : ~OldWithoutImage(r)}
  /\ cpc' = "step3"
  /\ UNCHANGED <<uiVars, rev, now, nextId, lastCand, csnap, cdirty, cycleVars,
                 metaVars, pureVars, ioVars>>

CleanupDelete3 ==
  /\ cpc = "step3"
  /\ store' = {r \in store : ~Dead(r)}
  /\ cpc' = "idle"
  /\ csnap' = {}
  /\ cdirty' = FALSE
  /\ UNCHANGED <<uiVars, rev, now, nextId, lastCand, cycleVars, metaVars, pureVars, ioVars>>

\* v2: clearOldTokens, called by onModuleInit when the service starts, is
\* a deleteMany without where-clause
ClearAllTokens ==
  /\ rev = "v2"
  /\ cpc = "idle"
  /\ csnap' = store
  /\ cdirty' = FALSE
  /\ store' = {}
  /\ UNCHANGED <<uiVars, rev, now, nextId, lastCand, cpc, cycleVars, metaVars,
                 pureVars, ioVars>>

\* a day passes; the handlers last seconds and are not split by it
TickTo(cap) ==
  /\ cpc = "idle"
  /\ rpc = "idle"
  /\ \A c \in Cycles : pc[c] = "idle"
  /\ ipfs = {} /\ timers = {} /\ jobs = {}
  /\ now < cap
  /\ now' = now + 1
  /\ UNCHANGED <<uiVars, rev, store, nextId, lastCand, cycleVars, metaVars,
                 cleanVars, pureVars, ioVars>>

Tick == TickTo(MaxDay)

---------------------------------------------------------------------------
(* Write paths of the three revisions on an initially empty table *)

NoQuery == [page |-> 0]
NoResult == [tokens |-> <<>>]
NoSubject == [volume24h |-> -1]
NoVerdict == [riskScore |-> -1]

\* no socket session, no request being served, no analysis computed
NoListener == [ready |-> "NONE", tokens |-> 0, promise |-> "none",
               timer |-> "none", late |-> 0]
NoReply == [endpoint |-> "none"]
NoStats == [totalMemecoins |-> -1]
NoFetch == [outcome |-> "none"]
NoInsight == [address |-> Null]
NoImage == [src |-> Null]

Quiet ==
  /\ pc = [c \in Cycles |-> "idle"]
  /\ batch = [c \in Cycles |-> <<>>]
  /\ idx = [c \in Cycles |-> 0]
  /\ existing = [c \in Cycles |-> FALSE]
  /\ tried = [c \in Cycles |-> NoTry]
  /\ ipfs = {}
  /\ timers = {}
  /\ jobs = {}
  /\ rpc = "idle"
  /\ rsnap = {}
  /\ cpc = "idle"
  /\ csnap = {}
  /\ cdirty = FALSE
  /\ lastCand = [a \in Addr |-> NoCand]
  /\ listener = NoListener
  /\ reply = NoReply
  /\ stats = NoStats

Idle ==
  /\ Quiet
  /\ mfetch = NoFetch
  /\ insight = NoInsight
  /\ image = NoImage

NoPure ==
  /\ query = NoQuery
  /\ result = NoResult
  /\ subject = NoSubject
  /\ verdict = NoVerdict

Init ==
  /\ rev \in Revisions
  /\ now = 0
  /\ store = {}
  /\ nextId = [a \in Addr |-> 1]
  /\ Idle
  /\ NoPure

Next ==
  \/ FetchStart("cron")
  \/ FindUnique("cron")
  \/ CycleWrite("cron")
  \/ \E q \in ipfs : IpfsResolved(q)
  \/ \E t \in timers : TimerFires(t)
  \/ \E j \in jobs : JobRun(j)
  \/ \E j \in jobs : JobRetry(j)
  \/ ReprocessStart
  \/ ReprocessStep
  \/ P4Start("cron")
  \/ P4Upsert("cron")
  \/ Tick

Spec == Init /\ [][Next]_vars

---------------------------------------------------------------------------
(* Cleanup runs over a table that already holds rows of every age,        *)
(* interleaved with fetch cycles                                           *)

\* day on which the cleanup specification starts
StartDay == VeryOldDays + 1

\* ages around the three thresholds
AgePoints ==
  {0, DeadDays, DeadDays + 1, NoImageDays, NoImageDays + 1, VeryOldDays,
   VeryOldDays + 1}

\* a row an earlier cycle created; rows of the price-provider revision in
\* the same table may carry a null imageUrl
OldRow(a, age, img, cap) ==
  [id |-> <<a, 0>>, address |-> a, name |-> "Old", symbol |-> "OLD",
   imageUrl |-> img, description |-> "Old - Pump.fun memecoin",
   uri |-> Null, twitter |-> Null, telegram |-> Null, website |-> Null,
   priceUsd |-> 15000, volume24h |-> 10, marketCap |-> cap,
   createdAt |-> StartDay - age, updatedAt |-> StartDay - age]

AgedStores ==
  {S1 \cup S2 :
     S1 \in {{}} \cup {{OldRow("a1", age, img, cap)} :
                        age \in AgePoints, img \in {"", Null, "img"},
                        cap \in {0, LowCapLimit - 1, LowCapLimit}},
     S2 \in {{}, {OldRow("a2", DeadDays, "", 0)}}}

\* the socket hands over one trade token without uri, so that no metadata
\* request is started; when it fails the explorer's list is used
CleanupSocket ==
  {[ok |-> TRUE, tokens |-> <<t>>] :
     t \in {c \in SocketCandsOf("p3") : ~Truthy(c.uri)}}
    \cup {[ok |-> FALSE, tokens |-> <<>>]}

InitCleanup ==
  /\ rev \in {"v1", "v2", "p3"}
  /\ now = StartDay
  /\ store \in AgedStores
  /\ nextId = [a \in Addr |-> 1]
  /\ Idle
  /\ NoPure

NextCleanup ==
  \/ CleanupDelete1
  \/ CleanupDelete2
  \/ CleanupDelete3
  \/ ClearAllTokens
  \/ FetchStartWith("cron", CleanupSocket, ExplorerOutcomes)
  \/ FindUnique("cron")
  \/ CycleWrite("cron")
  \/ TickTo(StartDay + MaxDay)

SpecCleanup == InitCleanup /\ [][NextCleanup]_vars

---------------------------------------------------------------------------
(* Properties of the write paths (Spec) *)

\* the numbers a write of candidate cand stores
WrittenNumbers(cand) ==
  IF rev = "p4"
  THEN [priceUsd |-> NumOr(cand.price.usdPrice, 0),
        volume24h |-> NumOr(cand.volume, 0),
        marketCap |-> estimatedMarketCap(cand.price)]
  ELSE [priceUsd |-> calculateTokenPrice(cand),
        volume24h |-> estimateVolume(cand),
        marketCap |-> candMarketCap(cand)]

\* C1: once a fetch cycle has written a candidate, getTokenByAddress of its
\* address returns a record with that address whose priceUsd, volume24h and
\* marketCap are those of the most recent write to the address
C1_ReadReturnsLastWrite ==
  \A a \in Addr :
    lastCand[a] # NoCand =>
      LET r == getTokenByAddress(a)
          n == WrittenNumbers(lastCand[a].cand)
      IN /\ r # NoRow
         /\ r.address = a
         /\ r.priceUsd = n.priceUsd
         /\ r.volume24h = n.volume24h
         /\ r.marketCap = n.marketCap

\* C1 witness: a row created by one candidate was later overwritten by a
\* different one with another market cap
C1_Overwritten ==
  \E a \in Addr :
    /\ lastCand[a] # NoCand
    /\ ~lastCand[a].twice
    /\ findUnique(a) # NoRow
    /\ findUnique(a).updatedAt > findUnique(a).createdAt
    /\ findUnique(a).marketCap = 500

\* the address the current iteration of cycle c writes
Target(c) ==
  IF rev = "p4" THEN batch[c][idx[c]].address ELSE batch[c][idx[c]].mint

\* C2: a cycle write that repeats the candidate of the previous write to the
\* address leaves exactly one row for the address, equal to the row before
\* in every field but updatedAt, which is the time of the write
C2_UpsertIdempotent ==
  [][\A c \in Cycles, a \in Addr :
       (/\ pc[c] = "write"
        /\ <<pc'[c], idx'[c]>> # <<pc[c], idx[c]>>
        /\ a = Target(c)
        /\ lastCand'[a].twice
        /\ (lastCand' # lastCand \/ store' # store))
       => /\ findUnique(a) # NoRow
          /\ findUnique(a).updatedAt <= now
          /\ Rows(a)' = {[findUnique(a) EXCEPT !.updatedAt = now]}]_vars

\* C2 witness: the same candidate was written twice, the second time on a
\* later day than the row was created
C2_WrittenTwice ==
  \E a \in Addr :
    /\ lastCand[a].twice
    /\ findUnique(a) # NoRow
    /\ findUnique(a).updatedAt > findUnique(a).createdAt

\* C3 as stated: no step replaces a non-empty imageUrl, description, twitter,
\* telegram or website of a row that stays in the table by '' or null
C3_EnrichmentNeverErased ==
  [][\A r \in store, r2 \in store' :
       r2.id = r.id =>
         \A f \in EnrichmentFields : Truthy(r[f]) => Truthy(r2[f])]_vars

---------------------------------------------------------------------------
(* Properties of clearOldTokens (SpecCleanup) *)

\* C4 as stated: a row that leaves the table is at least 3 days old, and
\* when a cleanup run ends no row older than 30 days is left
C4_CleanupAgeLimits ==
  [][/\ \A r \in store :
          (\A r2 \in store' : r2.id # r.id) => now - r.createdAt >= 3
     /\ (cpc = "step3" /\ cpc' = "idle") \/ (rev = "v2" /\ csnap' # csnap) =>
          \A r \in store' : now' - r.createdAt <= 30]_vars

\* the condition C5 states
ClaimedDeleted(r) ==
  \/ now - r.createdAt > 30
  \/ now - r.createdAt > 7 /\ r.imageUrl \in {"", Null}
  \/ now - r.createdAt > 3 /\ r.marketCap <= 0

\* the condition the three deletes implement
AmendedDeleted(r) ==
  \/ now - r.createdAt > 30
  \/ now - r.createdAt > 7 /\ r.imageUrl \in {"", Null} /\ r.marketCap < 1000
  \/ now - r.createdAt > 3 /\ r.marketCap <= 0

---------------------------------------------------------------------------
(* Listing: TokenDataController.getTokens and getAllTokens (v1, p3) over   *)
(* a table that does not change while a client walks through the pages     *)

MaxRows == 4      \* rows of the listed table
MaxLimit == 3     \* largest limit a client asks for
MaxPage == 5      \* last page a client asks for

DefaultLimit == 50     \* parseInt(limit) || 50

\* query-string numbers and what parseInt makes of them; 0 stands for NaN
\* as well, both being falsy
Digits == <<"1", "2", "3", "4", "5", "6", "7">>
parseInt(str) ==
  IF \E i \in 1..Len(Digits) : Digits[i] = str
  THEN CHOOSE i \in 1..Len(Digits) : Digits[i] = str
  ELSE 0

\* the order the database gives to the strings of the listed rows
StringOrder == <<"  ", "DG", "Dog", "MT", "Meta", "TK", "Tok">>
Collate(str) == CHOOSE i \in 1..Len(StringOrder) : StringOrder[i] = str

ListAddr == <<"t1", "t2", "t3", "t4", "t5", "t6">>
ListNames == <<"Dog", "Meta", "Tok", "  ">>
ListSymbols == <<"DG", "MT", "TK">>

\* the i-th listed row: rows 2 and 3 were created on the same day, volumes
\* repeat, and every fourth row carries the name "  " a create message of
\* the socket feed can bring (its length is 2)
ListRow(i) ==
  [id |-> <<ListAddr[i], 1>>, address |-> ListAddr[i],
   name |-> ListNames[((i - 1) % 4) + 1],
   symbol |-> ListSymbols[((i - 1) % 3) + 1],
   imageUrl |-> "", description |-> "desc", uri |-> Null,
   twitter |-> Null, telegram |-> Null, website |-> Null,
   priceUsd |-> 1000 * i, volume24h |-> 10 * (i % 2),
   marketCap |-> 500 * ((5 * i) % 3),
   createdAt |-> i \div 2, updatedAt |-> 4 - (i \div 2)]

ListStores == SUBSET {ListRow(i) : i \in 1..MaxRows}

validSortFields ==
  {"createdAt", "updatedAt", "volume24h", "marketCap", "priceUsd", "name",
   "symbol"}
validSortField(sortBy) ==
  IF sortBy \in validSortFields THEN sortBy ELSE "createdAt"
validSortOrderDesc(sortOrder) == "desc"     \* an order that ignores sortOrder
validSortOrder(sortOrder) == IF sortOrder = "asc" THEN "asc" ELSE "desc"

SortKey(r, field) ==
  IF field \in {"name", "symbol"} THEN Collate(r[field]) ELSE r[field]

SortedBy(seq, field, dir) ==
  \A i, j \in 1..Len(seq) :
    i < j => IF dir = "asc"
             THEN SortKey(seq[i], field) <= SortKey(seq[j], field)
             ELSE SortKey(seq[i], field) >= SortKey(seq[j], field)

\* the results orderBy allows: rows with equal keys come in any order
Orderings(S, field, dir) ==
  {seq \in [1..Cardinality(S) -> S] :
     /\ \A i, j \in 1..Cardinality(S) : i # j => seq[i] # seq[j]
     /\ SortedBy(seq, field, dir)}

\* findMany({skip, take}) on an ordered result
SkipTake(seq, skip, take) == SubSeq(seq, skip + 1, Min(skip + take, Len(seq)))

Trimmed(str) == IF str = "  " THEN "" ELSE str     \* String.trim
\* the filter p3 applies to the rows it fetched
Complete(r) ==
  /\ Truthy(r.address) /\ Trimmed(r.address) # ""
  /\ Truthy(r.name) /\ Trimmed(r.name) # ""
  /\ Truthy(r.symbol) /\ Trimmed(r.symbol) # ""
  /\ r.priceUsd >= 0 /\ r.marketCap >= 0 /\ r.volume24h >= 0

CeilDiv(a, b) == (a + b - 1) \div b

Pagination(page, limit, total) ==
  [page |-> page, limit |-> limit, total |-> total,
   totalPages |-> CeilDiv(total, limit),
   hasNext |-> page < CeilDiv(total, limit),
   hasPrevious |-> page > 1]

\* getAllTokens with ordered as the answer of the database to orderBy
getAllTokens(ordered, page, limit, sortBy, sortOrder) ==
  LET skip == (page - 1) * limit
      total == Len(ordered)
      tokens == IF rev = "p3"
                THEN SkipTake(SelectSeq(SkipTake(ordered, skip, limit * 2),
                                        Complete), 0, limit)
                ELSE SkipTake(ordered, skip, limit)
  IN [tokens |-> tokens,
      pagination |-> Pagination(page, limit, total),
      orderBy |-> [field |-> validSortField(sortBy),
                   dir |-> validSortOrder(sortOrder)]]

\* GET /token-data for the next page of the client's walk
GetTokens ==
  /\ Len(result) < MaxPage
  /\ LET pageNum == NumOr(parseInt(Digits[Len(result) + 1]), 1)
         limitNum == NumOr(parseInt(query.limit), DefaultLimit)
     IN \E ordered \in Orderings(store, validSortField(query.sortBy),
                                 validSortOrder(query.sortOrder)) :
          result' = Append(result,
                           getAllTokens(ordered, pageNum, limitNum,
                                        query.sortBy, query.sortOrder))
  /\ UNCHANGED <<uiVars, rev, now, storeVars, cycleVars, metaVars, cleanVars, query,
                 subject, verdict, ioVars>>

InitList ==
  /\ rev \in {"v1", "p3"}
  /\ now = 0
  /\ store \in ListStores
  /\ nextId = [a \in Addr |-> 1]
  /\ Idle
  /\ query \in [limit : {Digits[i] : i \in 1..MaxLimit} \cup {"x"},
                sortBy : validSortFields \cup {"rank"},
                sortOrder : {"asc", "desc", "ASC"}]
  /\ result = <<>>
  /\ subject = NoSubject
  /\ verdict = NoVerdict

NextList == GetTokens

SpecList == InitList /\ [][NextList]_vars

---------------------------------------------------------------------------
(* Properties of the listing (SpecList) *)

RECURSIVE Returned(_)
\* the number of records the first n answers hold together
Returned(n) == IF n = 0 THEN 0 ELSE Returned(n - 1) + Len(result[n].tokens)

AskedLimit == NumOr(parseInt(query.limit), 50)

\* C6 as stated: no answer holds more than pageSize records, and once the
\* pages 1..totalPages have been fetched their record counts add up to the
\* reported total
C6_PageCountsAddUp ==
  /\ \A p \in 1..Len(result) : Len(result[p].tokens) <= AskedLimit
  /\ (Len(result) >= 1 /\ Len(result) >= result[1].pagination.totalPages) =>
       Returned(result[1].pagination.totalPages) = result[1].pagination.total

\* C7 as stated: the answer for page p holds exactly the records ranked
\* (p-1)*pageSize+1 .. min(p*pageSize, N) of an ordering of the N stored
\* records in the order asked for, with total = N, totalPages =
\* ceil(N/pageSize), hasNext = (p < totalPages), hasPrevious = (p > 1)
C7_ExactRanks ==
  \A p \in 1..Len(result) :
    LET N == Cardinality(store)
        pages == (N + AskedLimit - 1) \div AskedLimit
        first == (p - 1) * AskedLimit + 1
        last == IF p * AskedLimit < N THEN p * AskedLimit ELSE N
    IN /\ \E seq \in Orderings(store, result[p].orderBy.field,
                               result[p].orderBy.dir) :
            result[p].tokens = [k \in 1..IF last < first THEN 0
                                         ELSE last - first + 1
                                  |-> seq[first + k - 1]]
       /\ result[p].pagination.total = N
       /\ result[p].pagination.totalPages = pages
       /\ result[p].pagination.hasNext = (p < pages)
       /\ result[p].pagination.hasPrevious = (p > 1)

AllowList ==
  {"createdAt", "updatedAt", "volume24h", "marketCap", "priceUsd", "name",
   "symbol"}

\* C8 as stated: the sort field is in the allow-list, and an answer to a
\* request whose sort field is not in it is ordered by createdAt descending
\* whatever sortOrder came with it
C8_FallbackAlwaysDescending ==
  \A p \in 1..Len(result) :
    /\ result[p].orderBy.field \in AllowList
    /\ SortedBy(result[p].tokens, result[p].orderBy.field,
                result[p].orderBy.dir)
    /\ query.sortBy \notin AllowList =>
         SortedBy(result[p].tokens, "createdAt", "desc")

\* C8 amended: the fallback replaces the sort field only; the direction is
\* ascending when sortOrder is 'asc' and descending for every other value
C8_FallbackKeepsDirection ==
  \A p \in 1..Len(result) :
    /\ result[p].orderBy.field \in AllowList
    /\ SortedBy(result[p].tokens, result[p].orderBy.field,
                result[p].orderBy.dir)
    /\ query.sortBy \notin AllowList =>
         SortedBy(result[p].tokens, "createdAt",
                  IF query.sortOrder = "asc" THEN "asc" ELSE "desc")

\* C8 witness: a request with an unknown sort field and sortOrder 'asc' was
\* answered with records in strictly ascending createdAt
C8_UnknownFieldAscending ==
  \E p \in 1..Len(result) :
    /\ query.sortBy \notin AllowList
    /\ query.sortOrder = "asc"
    /\ Len(result[p].tokens) >= 2
    /\ result[p].tokens[1].createdAt < result[p].tokens[2].createdAt

---------------------------------------------------------------------------
(* Scoring: calculateRiskScore / generateRecommendation of the service and *)
(* calculateRiskAnalysis of the token-details page.  A null field counts   *)
(* as 0 (token.x || 0), so 0 stands for it.                                *)

Max(a, b) == IF a > b THEN a ELSE b

\* the service's riskScore before Math.min
apiRiskSumLenient(token) ==     \* a sum that charges low volume only with low price
  50 + (IF token.volume24h < 50000 /\ token.priceUsd < 1000 THEN 20 ELSE 0)
     + (IF token.priceUsd < 1000 THEN 15 ELSE 0)
     + (IF token.marketCap < 100000 THEN 15 ELSE 0)
apiRiskSum(token) ==
  50 + (IF token.volume24h < 50000 THEN 20 ELSE 0)
     + (IF token.priceUsd < 1000 THEN 15 ELSE 0)
     + (IF token.marketCap < 100000 THEN 15 ELSE 0)

calculateRiskScore(token) == Min(100, apiRiskSum(token))

\* the ladder of labels both implementations use (the emoji prefix of the
\* labels is left out)
LabelMonitorFirst(riskScore, volume, marketCap) ==     \* first two rungs swapped
  IF riskScore > 60 THEN "MONITOR"
  ELSE IF riskScore > 80 THEN "AVOID"
  ELSE IF volume > 500000 /\ marketCap > 1000000 THEN "BUY"
  ELSE IF volume > 100000 /\ marketCap > 500000 THEN "HOLD"
  ELSE "RESEARCH"
LabelDefaultHold(riskScore, volume, marketCap) ==     \* last rung as 'Hold'
  IF riskScore > 80 THEN "AVOID"
  ELSE IF riskScore > 60 THEN "MONITOR"
  ELSE IF volume > 500000 /\ marketCap > 1000000 THEN "BUY"
  ELSE IF volume > 100000 /\ marketCap > 500000 THEN "HOLD"
  ELSE "Hold"
LabelUpsideFirst(riskScore, volume, marketCap) ==     \* upside checks first
  IF volume > 500000 /\ marketCap > 1000000 THEN "BUY"
  ELSE IF volume > 100000 /\ marketCap > 500000 THEN "HOLD"
  ELSE IF riskScore > 80 THEN "AVOID"
  ELSE IF riskScore > 60 THEN "MONITOR"
  ELSE "RESEARCH"
Label(riskScore, volume, marketCap) ==
  IF riskScore > 80 THEN "AVOID"
  ELSE IF riskScore > 60 THEN "MONITOR"
  ELSE IF volume > 500000 /\ marketCap > 1000000 THEN "BUY"
  ELSE IF volume > 100000 /\ marketCap > 500000 THEN "HOLD"
  ELSE "RESEARCH"

generateRecommendation(token) ==
  Label(calculateRiskScore(token), token.volume24h, token.marketCap)

\* the page's riskScore before clamping
webRiskSum(token) ==
  50 + (IF token.volume24h < 50000 THEN 20
        ELSE IF token.volume24h > 500000 THEN -15 ELSE 0)
     + (IF token.priceUsd < 1000 THEN 15 ELSE 0)
     + (IF token.marketCap < 100000 THEN 15
        ELSE IF token.marketCap > 1000000 THEN -10 ELSE 0)
     + (IF token.created /\ token.hoursAge < 24 THEN 10 ELSE 0)

calculateRiskAnalysis(token) ==
  LET riskScore == Max(0, Min(100, webRiskSum(token)))
  IN [by |-> "web", riskScore |-> riskScore,
      recommendation |-> Label(riskScore, token.volume24h, token.marketCap)]

Subjects ==
  [volume24h : {0, 20000, 49999, 50000, 100001, 500001},
   priceUsd : {0, 500, 999, 1000, 2000},
   marketCap : {0, 50000, 99999, 100000, 500001, 1000001},
   created : BOOLEAN,
   hoursAge : {1, 24}]

\* one entry of analysis.recommendations
ApiScore ==
  /\ verdict = NoVerdict
  /\ verdict' = [by |-> "api", riskScore |-> calculateRiskScore(subject),
                 recommendation |-> generateRecommendation(subject)]
  /\ UNCHANGED <<uiVars, rev, now, storeVars, cycleVars, metaVars, cleanVars, query,
                 result, subject, ioVars>>

\* the analysis the token-details page shows
WebScore ==
  /\ verdict = NoVerdict
  /\ verdict' = calculateRiskAnalysis(subject)
  /\ UNCHANGED <<uiVars, rev, now, storeVars, cycleVars, metaVars, cleanVars, query,
                 result, subject, ioVars>>

InitScore ==
  /\ rev \in {"v1", "p3"}
  /\ now = 0
  /\ store = {}
  /\ nextId = [a \in Addr |-> 1]
  /\ Idle
  /\ query = NoQuery
  /\ result = NoResult
  /\ subject \in Subjects
  /\ verdict = NoVerdict

NextScore ==
  \/ ApiScore
  \/ WebScore

SpecScore == InitScore /\ [][NextScore]_vars

---------------------------------------------------------------------------
(* Properties of the scoring (SpecScore) *)

\* the same record with a volume that earns neither penalty nor bonus
NeutralVolume == [subject EXCEPT !.volume24h = 50000]

\* C9: a computed risk score is an integer from 0 to 100, and for a record
\* with volume24h < 50000 it is the clamped sum that is 20 above the sum
\* the same record gets with a neutral volume
C9_ScoreRangeAndVolumePenalty ==
  verdict # NoVerdict =>
    /\ verdict.riskScore \in 0..100
    /\ subject.volume24h < 50000 =>
         LET neutral == IF verdict.by = "api" THEN apiRiskSum(NeutralVolume)
                        ELSE webRiskSum(NeutralVolume)
         IN verdict.riskScore =
              (IF neutral + 20 > 100 THEN 100
               ELSE IF neutral + 20 < 0 THEN 0 ELSE neutral + 20)

\* C9 witness: the service scored a low-volume record with high price and
\* market cap 70, the base score with the low-volume penalty alone
C9_PenaltyAlone ==
  /\ verdict # NoVerdict
  /\ subject.volume24h < 50000
  /\ subject.priceUsd >= 1000
  /\ subject.marketCap >= 100000
  /\ verdict.by = "api"
  /\ verdict.riskScore = 70

\* C10: a record with volume24h < 50000, priceUsd < 0.001 and marketCap <
\* 100000 gets the risk score 100 and the recommendation AVOID
C10_WorstCaseAvoid ==
  (/\ verdict # NoVerdict
   /\ subject.volume24h < 50000
   /\ subject.priceUsd < 1000
   /\ subject.marketCap < 100000)
  => verdict.riskScore = 100 /\ verdict.recommendation = "AVOID"

\* C10 witness: the record with priceUsd 0.0005, marketCap 50000 and
\* volume24h 20000 has been scored
C10_ExampleScored ==
  /\ verdict # NoVerdict
  /\ subject.volume24h = 20000
  /\ subject.priceUsd = 500
  /\ subject.marketCap = 50000

\* C11 as stated: a computed recommendation label is one of BUY, HOLD,
\* MONITOR, AVOID
C11_LabelOneOfFour ==
  verdict # NoVerdict =>
    verdict.recommendation \in {"BUY", "HOLD", "MONITOR", "AVOID"}

\* C11 amended: a computed recommendation label is one of BUY, HOLD,
\* MONITOR, AVOID, RESEARCH
C11_LabelOneOfFive ==
  verdict # NoVerdict =>
    verdict.recommendation \in {"BUY", "HOLD", "MONITOR", "AVOID", "RESEARCH"}

\* C11 witness: a record with a score of at most 60 whose volume does not
\* exceed 100000 was labelled RESEARCH
C11_Research ==
  /\ verdict # NoVerdict
  /\ verdict.riskScore <= 60
  /\ subject.volume24h <= 100000
  /\ verdict.recommendation = "RESEARCH"

---------------------------------------------------------------------------
(* Properties of the source selection (Spec) *)

\* C12: a starting fetch cycle asks the socket source first and the
\* token-list source if and only if the socket source failed or gave no
\* record; the tokens it goes on to process are those of the source that
\* gave some; when no source answers, the cycle ends at once with the error
\* logged, nothing written and nothing raised to its caller
C12_SourcePriority ==
  [][\A c \in Cycles :
       (pc[c] = "idle" /\ tried'[c] # NoTry /\ tried'[c] # tried[c]) =>
         /\ tried'[c].socket # "untried"
         /\ (tried'[c].explorer # "untried") <=> (tried'[c].socket = "none")
         /\ tried'[c].socket = "tokens" =>
              /\ pc'[c] = "find"
              /\ \A i \in 1..Len(batch'[c]) : batch'[c][i] \in SocketCands
         /\ tried'[c].explorer = "tokens" =>
              /\ pc'[c] = "find"
              /\ \A i \in 1..Len(batch'[c]) : batch'[c][i] \in ExplorerCands
         /\ tried'[c].explorer \in {"failed", "empty"} =>
              /\ pc'[c] = "idle"
              /\ store' = store
              /\ tried'[c].ended \in {"logged", "returned"}
         /\ tried'[c].ended # "raised"]_vars

\* C12 witness: with rows in the table, a cycle found the socket source
\* without records and the token-list source failing, and ended
C12_AllSourcesFailed ==
  \E c \in Cycles :
    /\ tried[c].socket = "none"
    /\ tried[c].explorer = "failed"
    /\ tried[c].ended = "logged"
    /\ pc[c] = "idle"
    /\ store # {}

---------------------------------------------------------------------------
(* Overlapping fetch cycles: the cron cycle and the manual refresh run     *)
(* side by side, with the metadata updates, the reprocessing and the       *)
(* cleanup, over a table that may hold one old row                         *)

\* the socket hands over one create message with uri, or fails and the
\* explorer hands over one token
OneTokenSocket(r) ==
  {[ok |-> TRUE, tokens |-> <<t>>] :
     t \in {c \in SocketCandsOf(r) : Truthy(c.uri)}}
    \cup {[ok |-> FALSE, tokens |-> <<>>]}
OneTokenExplorer == {[ok |-> TRUE, tokens |-> <<t>>] : t \in ExplorerCands}

InitOverlap ==
  /\ rev \in {"v1", "p3"}
  /\ now = StartDay
  /\ store \in {{}, {OldRow("a1", VeryOldDays + 1, "", 0)}}
  /\ nextId = [a \in Addr |-> 1]
  /\ Idle
  /\ NoPure

NextOverlap ==
  \/ \E c \in Cycles : FetchStartWith(c, OneTokenSocket(rev), OneTokenExplorer)
  \/ \E c \in Cycles : FindUnique(c)
  \/ \E c \in Cycles : CycleWrite(c)
  \/ \E q \in ipfs : IpfsResolved(q)
  \/ \E t \in timers : TimerFires(t)
  \/ \E j \in jobs : JobRun(j)
  \/ \E j \in jobs : JobRetry(j)
  \/ ReprocessStart
  \/ ReprocessStep
  \/ CleanupDelete1
  \/ CleanupDelete2
  \/ CleanupDelete3

SpecOverlap == InitOverlap /\ [][NextOverlap]_vars

---------------------------------------------------------------------------
(* C13: one row per address *)

UniqueAddress ==
  \A r1 \in store, r2 \in store : r1.address = r2.address => r1 = r2

\* C13: whatever the interleaving of fetch cycles, metadata updates,
\* reprocessing and cleanup, the table holds at most one row per address,
\* and no step changes the address of a row that stays in the table
C13_OneRowPerAddress ==
  [][/\ UniqueAddress
     /\ UniqueAddress'
     /\ \A r \in store, r2 \in store' :
          r.id = r2.id => r2.address = r.address]_vars

\* C13 witness: a cycle that found no row is about to create one for an
\* address another writer has inserted in the meantime
C13_CreateOnTakenAddress ==
  \E c \in Cycles :
    /\ pc[c] = "write"
    /\ ~existing[c]
    /\ Rows(batch[c][idx[c]].mint) # {}

---------------------------------------------------------------------------
(* Upstream data: what the socket's create messages and the explorer's     *)
(* token list may carry, and the token objects the sources build from it   *)

\* a create message: "" and 0 stand for an absent field
Message(m, nm, sym, mc, sol, tok) ==
  [mint |-> m, name |-> nm, symbol |-> sym, marketCap |-> mc,
   virtualSolReserves |-> sol, virtualTokenReserves |-> tok]

Messages ==
  {Message(m, nm, sym, mc, sol, tok) :
     m \in SocketAddr \cup {""}, nm \in {"", "X", "Tok"}, sym \in {"", "TK"},
     mc \in {-500, 0}, sol \in {-600, 0}, tok \in {-1, 0}}

\* values Math.random() supplies for an absent field
RandomCaps == {999999}
RandomSolReserves == {600}
RandomTokenReserves == {1}

\* message.name || ... || `Token ${mint.substring(0, 8)}`
extractedName(msg) ==
  IF Truthy(msg.name) THEN msg.name
  ELSE IF Truthy(msg.mint) THEN "Token " \o msg.mint ELSE "Unknown Token"

\* message.symbol || ... || mint.substring(0, 6).toUpperCase()
extractedSymbol(msg) ==
  IF Truthy(msg.symbol) THEN msg.symbol
  ELSE IF msg.mint = "a1" THEN "A1"
  ELSE IF msg.mint = "a2" THEN "A2" ELSE "UNK"

\* "Only add if we have valid data and it's not generic"
ValidMessage(msg) ==
  /\ Truthy(msg.mint)
  /\ extractedName(msg) # "New Pump.fun Token"
  /\ extractedSymbol(msg) # "NEW"
  /\ Len(extractedName(msg)) > 1
  /\ Len(extractedSymbol(msg)) > 0

\* x || Math.floor(... Math.random() ...)
NumOrRandom(x, R) == IF x # 0 THEN {x} ELSE R

\* tokenData of a create message without uri
tokenData(msg) ==
  {Cand(msg.mint, extractedName(msg), extractedSymbol(msg),
        extractedName(msg) \o " - Launched on Pump.fun", "", Null,
        mc, umc, sol, tok) :
     mc \in NumOrRandom(msg.marketCap, RandomCaps),
     umc \in NumOrRandom(msg.marketCap, RandomCaps),
     sol \in NumOrRandom(msg.virtualSolReserves, RandomSolReserves),
     tok \in NumOrRandom(msg.virtualTokenReserves, RandomTokenReserves)}

\* the listener resolves with the token of one valid create message, or
\* rejects when it collected none
MessageSocket ==
  {[ok |-> TRUE, tokens |-> <<t>>] :
     t \in UNION {tokenData(msg) : msg \in {x \in Messages : ValidMessage(x)}}}
    \cup {[ok |-> FALSE, tokens |-> <<>>]}

\* an entry of https://token.jup.ag/all
ListEntry(a, nm, sym, logo) ==
  [address |-> a, name |-> nm, symbol |-> sym, logoURI |-> logo]

ListEntries ==
  {ListEntry(a, nm, sym, logo) :
     a \in ExplorerAddr, nm \in {"", "Dog"}, sym \in {"", "DG"},
     logo \in {Null, "logo"}}

\* memeTokens.map(...) of fetchFromSolanaExplorer
explorerToken(e) ==
  Cand(e.address, e.name, e.symbol, "Solana memecoin - " \o e.name,
       OrElse(e.logoURI, ""), Null, 0, 0, 200, 1)

ListExplorer ==
  {[ok |-> TRUE, tokens |-> <<explorerToken(e)>>] : e \in ListEntries}
    \cup {[ok |-> FALSE, tokens |-> <<>>]}

InitUpstream ==
  /\ rev \in {"v1", "p3"}
  /\ now = 0
  /\ store = {}
  /\ nextId = [a \in Addr |-> 1]
  /\ Idle
  /\ NoPure

NextUpstream ==
  \/ FetchStartWith("cron", MessageSocket, ListExplorer)
  \/ FindUnique("cron")
  \/ CycleWrite("cron")

SpecUpstream == InitUpstream /\ [][NextUpstream]_vars

\* C14: priceUsd, marketCap and volume24h of every stored row are at least
\* 0, whatever reserves and market caps the upstream messages carried
C14_NumbersNonNegative ==
  \A r \in store : r.priceUsd >= 0 /\ r.marketCap >= 0 /\ r.volume24h >= 0

\* C15: every stored row has a non-empty address, name and symbol
C15_IdentityNonEmpty ==
  \A r \in store : Truthy(r.address) /\ Truthy(r.name) /\ Truthy(r.symbol)

---------------------------------------------------------------------------
(* The socket listener: fetchDirectFromPumpFun as the events of one        *)
(* WebSocket session and its 30 s timer                                    *)

maxMessages == 50

\* resolve / reject of the session's promise: the first call settles it
settle(outcome) ==
  IF listener.promise = "pending" THEN outcome ELSE listener.promise

\* resolve(tokens) when some were collected, reject otherwise
byTokens(n) == IF n > 0 THEN "resolved" ELSE "rejected"

\* readyState after ws.close()
closing == IF listener.ready \in {"CONNECTING", "OPEN"} THEN "CLOSING"
           ELSE listener.ready

\* new Promise(...): the socket is constructed and the timer armed, or the
\* constructor throws and the catch rejects
ListenerStart ==
  /\ listener = NoListener
  /\ \/ listener' = [ready |-> "CONNECTING", tokens |-> 0,
                     promise |-> "pending", timer |-> "armed",
                     late |-> 0]
     \/ listener' = [ready |-> "CLOSED", tokens |-> 0,
                     promise |-> "rejected", timer |-> "none",
                     late |-> 0]
  /\ UNCHANGED <<uiVars, rev, now, storeVars, cycleVars, metaVars, cleanVars,
                 pureVars, reply, stats>>

\* ws.on('open')
WsOpen ==
  /\ listener.ready = "CONNECTING"
  /\ listener' = [listener EXCEPT !.ready = "OPEN"]
  /\ UNCHANGED <<uiVars, rev, now, storeVars, cycleVars, metaVars, cleanVars,
                 pureVars, reply, stats>>

\* ws.on('message') for a create or trade message that is kept
WsMessage ==
  /\ listener.ready = "OPEN"
  /\ LET n == listener.tokens + 1
     IN listener' = IF n >= maxMessages
                    THEN [listener EXCEPT !.tokens = n, !.ready = closing,
                                          !.promise = settle("resolved")]
                    ELSE [listener EXCEPT !.tokens = n]
  /\ UNCHANGED <<uiVars, rev, now, storeVars, cycleVars, metaVars, cleanVars,
                 pureVars, reply, stats>>

MaxLate == 2      \* messages delivered after ws.close() was called

\* ws.on('message') for a create message that arrives between ws.close()
\* and the close event: the create branch pushes without looking at
\* messageCount, and the array handed to resolve() is the one pushed to
WsLateMessage ==
  /\ listener.ready = "CLOSING"
  /\ listener.late < MaxLate
  /\ listener' = [listener EXCEPT
                    !.tokens = @ + 1,
                    !.late = @ + 1,
                    !.promise = IF listener.tokens + 1 >= maxMessages
                                THEN settle("resolved") ELSE @]
  /\ UNCHANGED <<uiVars, rev, now, storeVars, cycleVars, metaVars, cleanVars,
                 pureVars, reply, stats>>

\* an error handler that settles like the close handler
WsErrorPartial ==
  /\ listener.ready \in {"CONNECTING", "OPEN"}
  /\ listener' = [listener EXCEPT
                    !.ready = closing,
                    !.promise = settle(byTokens(listener.tokens))]
  /\ UNCHANGED <<uiVars, rev, now, storeVars, cycleVars, metaVars, cleanVars,
                 pureVars, reply, stats>>

\* ws.on('error')
WsError ==
  /\ listener.ready \in {"CONNECTING", "OPEN"}
  /\ listener' = [listener EXCEPT !.ready = closing,
                                  !.promise = settle("rejected")]
  /\ UNCHANGED <<uiVars, rev, now, storeVars, cycleVars, metaVars, cleanVars,
                 pureVars, reply, stats>>

\* ws.on('close')
WsClose ==
  /\ listener.ready \in {"OPEN", "CLOSING"}
  /\ listener' = [listener EXCEPT
                    !.ready = "CLOSED",
                    !.promise = settle(byTokens(listener.tokens))]
  /\ UNCHANGED <<uiVars, rev, now, storeVars, cycleVars, metaVars, cleanVars,
                 pureVars, reply, stats>>

\* the callback of setTimeout(..., 30000)
SessionTimeout ==
  /\ listener.timer = "armed"
  /\ listener' = IF listener.ready = "OPEN"
                 THEN [listener EXCEPT
                         !.timer = "fired", !.ready = closing,
                         !.promise = settle(byTokens(listener.tokens))]
                 ELSE [listener EXCEPT !.timer = "fired"]
  /\ UNCHANGED <<uiVars, rev, now, storeVars, cycleVars, metaVars, cleanVars,
                 pureVars, reply, stats>>

InitSocket ==
  /\ rev \in {"v1", "p3"}
  /\ now = 0
  /\ store = {}
  /\ nextId = [a \in Addr |-> 1]
  /\ Idle
  /\ NoPure

NextSocket ==
  \/ ListenerStart
  \/ WsOpen
  \/ WsMessage
  \/ WsLateMessage
  \/ WsError
  \/ WsClose
  \/ SessionTimeout

SpecSocket == InitSocket /\ [][NextSocket]_vars

\* C16: once the 30 s timer has fired, the session is settled (resolved
\* with the tokens collected or rejected if there are none) and the socket
\* is closing or closed, whatever state the connection was in
C16_SettledAtTimeout ==
  listener.timer = "fired" =>
    /\ listener.promise \in {"resolved", "rejected"}
    /\ listener.ready \in {"CLOSING", "CLOSED"}

---------------------------------------------------------------------------
(* The missing-image reprocessing task over a backlog: as many rows as one *)
(* run takes whose IPFS document has no image, and one more row            *)

BareUri == "ipfs://bare"                            \* a document without image
BareDoc == Doc(Null, Null, "tw", Null, Null, Null, Null)

\* what fetchTokenMetadataFromIPFS can return for a uri: its document, or
\* null when the gateways fail
DocsOf(uri) == IF uri = BareUri THEN {BareDoc, NoDoc} ELSE MetaDocs \cup {NoDoc}

BacklogAddr ==
  {"b01", "b02", "b03", "b04", "b05", "b06", "b07",
   "b08", "b09", "b10", "b11", "b12", "b13", "b14",
   "b15", "b16", "b17", "b18", "b19", "b20"}

\* the rows the create branch stored for the backlog and for a1: the quick
\* IPFS fetch gave the backlog its twitter handle, and failed for a1
BacklogRows ==
  {NewRow(Cand(a, "Tok", "TK", "desc", "", BareUri, 2000000, 2000000,
               6000000, 1), BareDoc, <<a, 0>>) : a \in BacklogAddr}
PendingRow ==
  NewRow(Cand("a1", "Tok", "TK", "desc", "", "ipfs://u", 2000000, 2000000,
              6000000, 1), NoDoc, <<"a1", 0>>)

\* the for-loop takes the tokens in the order of the array
ReprocessNext ==
  /\ rpc = "loop"
  /\ rsnap # {}
  /\ LET token == CHOOSE t \in rsnap : TRUE
     IN \E doc \in DocsOf(token.uri) : ReprocessToken(token, doc)

InitReprocess ==
  /\ rev = "p3"
  /\ now = 0
  /\ store = BacklogRows \cup {PendingRow}
  /\ nextId = [a \in Addr |-> 1]
  /\ Idle
  /\ NoPure

NextReprocess ==
  \/ ReprocessStart
  \/ ReprocessNext

SpecReprocess == InitReprocess /\ [][NextReprocess]_vars

\* the cron job fires every 30 minutes and a started loop runs to its end
SpecReprocessFair ==
  SpecReprocess /\ WF_vars(ReprocessStart) /\ WF_vars(ReprocessNext)

\* the row of a1 has a uri and no image
Pending == \E r \in store : r.address = "a1" /\ MissingImage(r)

\* the running task has the row of a1 among its tokensWithoutImages
Selected == \E t \in rsnap : t.address = "a1"

\* C17: while the task keeps firing, a row with uri and without image is
\* taken up by some later run, or stops being such a row, however many
\* other rows miss an image
C17_EventuallyRetried == Pending ~> (Selected \/ ~Pending)

---------------------------------------------------------------------------
(* The controller: what each endpoint answers when the operation it        *)
(* triggers succeeds or fails                                              *)

Endpoints ==
  {"list", "tokens", "lookup", "analysis", "refresh", "discover", "cleanup"}

\* how the service method behind an endpoint ends: each of getAllTokens,
\* getTokenByAddress, analyzeMemecoins, clearOldTokens and
\* fetchAndStoreLatestTokens catches its errors, logs them and returns a
\* fallback value
serviceEnds(failed) == IF failed THEN "fallback" ELSE "value"

Envelope(s, e, n) == [success |-> s, error |-> e, thrown |-> FALSE, count |-> n]
Propagated == [success |-> "absent", error |-> FALSE, thrown |-> TRUE, count |-> 0]

\* the handler of an endpoint, given how the service call ended, whether
\* the looked-up token was found and the number of rows read
handler(endpoint, ends, found, n) ==
  IF endpoint = "list"
  THEN IF ends = "throws" THEN Propagated
       ELSE Envelope("absent", FALSE, IF ends = "value" THEN n ELSE 0)
  ELSE IF ends = "throws" THEN Envelope("false", TRUE, 0)
  ELSE IF endpoint = "lookup"
  THEN IF ends = "value" /\ found THEN Envelope("true", FALSE, 1)
       ELSE Envelope("false", TRUE, 0)
  ELSE IF endpoint \in {"tokens", "analysis"}
  THEN Envelope("true", FALSE, IF ends = "value" THEN n ELSE 0)
  ELSE Envelope("true", FALSE, 0)

Answered(e, failed, found, n) ==
  [endpoint |-> e, failed |-> failed,
   answer |-> handler(e, serviceEnds(failed), found, n)]

\* a request to one of the reading endpoints or to cleanup; the database
\* call behind it succeeds or fails
Serve(e) ==
  /\ e \in Endpoints \ {"refresh", "discover"}
  /\ \E failed \in BOOLEAN, a \in Addr :
       reply' = Answered(e, failed, findUnique(a) # NoRow, Cardinality(store))
  /\ UNCHANGED <<uiVars, rev, now, storeVars, cycleVars, metaVars, cleanVars,
                 pureVars, listener, stats>>

\* refresh and discover await fetchAndStoreLatestTokens: the answer to a
\* run that ended at the choice of its source
ServeFetch(e) ==
  /\ e \in {"refresh", "discover"}
  /\ pc["manual"] = "idle"
  /\ tried["manual"] # NoTry
  /\ reply' = Answered(e, tried["manual"].ended = "logged", FALSE, 0)
  /\ tried' = [tried EXCEPT !["manual"] = NoTry]
  /\ UNCHANGED <<uiVars, rev, now, storeVars, pc, batch, idx, existing, metaVars,
                 cleanVars, pureVars, listener, stats>>

FailedSocket == {[ok |-> FALSE, tokens |-> <<>>]}

InitApi ==
  /\ rev \in {"v1", "p3"}
  /\ now = 0
  /\ store = {}
  /\ nextId = [a \in Addr |-> 1]
  /\ Idle
  /\ NoPure

NextApi ==
  \/ FetchStartWith("manual", FailedSocket, ListExplorer)
  \/ FindUnique("manual")
  \/ CycleWrite("manual")
  \/ \E e \in Endpoints : Serve(e)
  \/ \E e \in Endpoints : ServeFetch(e)

SpecApi == InitApi /\ [][NextApi]_vars

\* C18: an endpoint whose operation failed answers success: false with an
\* error, and lets no exception through
C18_FailureEnvelope ==
  (reply # NoReply /\ reply.failed) =>
    /\ reply.answer.success = "false"
    /\ reply.answer.error
    /\ ~reply.answer.thrown

---------------------------------------------------------------------------
(* The analysis endpoint over tables of growing size *)

MaxStore == 52     \* rows of the largest table analysed

\* the i-th row of the analysed table, created on day i
StoreRow(i) ==
  [id |-> <<"s" \o ToString(i), 1>>, address |-> "s" \o ToString(i),
   name |-> "Tok", symbol |-> "TK", imageUrl |-> "img",
   description |-> "desc", uri |-> Null, twitter |-> Null,
   telegram |-> Null, website |-> Null,
   priceUsd |-> 1000 * i, volume24h |-> 30000 * (i % 6),
   marketCap |-> 400000 * (i % 4), createdAt |-> i, updatedAt |-> i]

\* the answer of the database to orderBy: { createdAt: 'desc' } when no
\* two rows were created at the same time
RECURSIVE NewestFirst(_)
NewestFirst(S) ==
  IF S = {} THEN <<>>
  ELSE LET r == CHOOSE x \in S : \A y \in S : y.createdAt <= x.createdAt
       IN <<r>> \o NewestFirst(S \ {r})

RECURSIVE SumOf(_, _)
SumOf(seq, field) ==              \* tokens.reduce((sum, t) => sum + t[field], 0)
  IF seq = <<>> THEN 0 ELSE seq[1][field] + SumOf(Tail(seq), field)

\* Array.prototype.sort((a, b) => b[field] - a[field]): descending, stable
RECURSIVE SortDesc(_, _)
SortDesc(seq, field) ==
  IF seq = <<>> THEN <<>>
  ELSE LET i == CHOOSE k \in 1..Len(seq) :
                  /\ \A j \in 1..Len(seq) : seq[j][field] <= seq[k][field]
                  /\ \A j \in 1..(k - 1) : seq[j][field] < seq[k][field]
       IN <<seq[i]>> \o SortDesc(SubSeq(seq, 1, i - 1)
                                  \o SubSeq(seq, i + 1, Len(seq)), field)

LowVolume(token) == token.volume24h < 50000
HighVolume(token) == token.volume24h > 100000
BigCap(token) == token.marketCap > 1000000

Addresses(seq) == [i \in 1..Len(seq) |-> seq[i].address]

\* the analysis object built from tokens (averagePrice and potentialGain
\* are left out)
analysisOf(tokens) ==
  [totalMemecoins |-> Len(tokens),
   totalVolume24h |-> SumOf(tokens, "volume24h"),
   totalMarketCap |-> SumOf(tokens, "marketCap"),
   highRiskTokens |-> Len(SelectSeq(tokens, LowVolume)),
   trending |-> Addresses(SkipTake(SortDesc(SelectSeq(tokens, HighVolume),
                                            "volume24h"), 0, 10)),
   topGainers |-> Addresses(SkipTake(SortDesc(SelectSeq(tokens, BigCap),
                                              "marketCap"), 0, 5)),
   recommendations |->
     [i \in 1..Len(tokens) |->
        [address |-> tokens[i].address,
         riskScore |-> calculateRiskScore(tokens[i]),
         recommendation |-> generateRecommendation(tokens[i])]]]

\* analyzeMemecoins: the analysis of the result of getAllTokens()
analyzeMemecoins ==
  analysisOf(getAllTokens(NewestFirst(store), 1, DefaultLimit, "createdAt",
                          "desc").tokens)

\* GET /token-data/pumpfun/analysis
Analyze ==
  /\ stats' = analyzeMemecoins
  /\ UNCHANGED <<uiVars, rev, now, storeVars, cycleVars, metaVars, cleanVars,
                 pureVars, listener, reply>>

InitAnalysis ==
  /\ rev \in {"v1", "p3"}
  /\ now = MaxStore
  /\ store \in {{StoreRow(i) : i \in 1..n} : n \in 0..MaxStore}
  /\ nextId = [a \in Addr |-> 1]
  /\ Idle
  /\ NoPure

NextAnalysis == Analyze

SpecAnalysis == InitAnalysis /\ [][NextAnalysis]_vars

\* C19: the statistics of the analysis are those of all the rows of the
\* table, whatever its size
C19_StatsOverAllRecords ==
  stats # NoStats => stats = analysisOf(NewestFirst(store))

---------------------------------------------------------------------------
(* Two overlapping fetch cycles alone: the cron cycle and a manual refresh *)

NextRace ==
  \/ \E c \in Cycles : FetchStartWith(c, OneTokenSocket(rev), OneTokenExplorer)
  \/ \E c \in Cycles : FindUnique(c)
  \/ \E c \in Cycles : CycleWrite(c)

SpecRace == InitOverlap /\ [][NextRace]_vars

\* C20: whatever the interleaving of the existence checks and writes of two
\* overlapping cycles, every write of a cycle is applied: after it the table
\* holds one row for the address, with the numbers of the token written
C20_LastWriteWins ==
  [][\A c \in Cycles :
       (pc[c] = "write" /\ <<pc'[c], idx'[c]>> # <<pc[c], idx[c]>>) =>
         LET token == batch[c][idx[c]]
             n == WrittenNumbers(token)
         IN \E r \in store' :
              /\ r.address = token.mint
              /\ r.priceUsd = n.priceUsd
              /\ r.volume24h = n.volume24h
              /\ r.marketCap = n.marketCap
              /\ \A r2 \in store' : r2.address = token.mint => r2 = r]_vars

---------------------------------------------------------------------------
(* C21: an update that finds its row deleted by the cleanup *)

\* C21: when the row a cycle's existence check found is gone at the time of
\* the update, the update re-inserts it or does nothing and raises no error:
\* the loop goes on to the next token of the batch
C21_UpdateOfDeletedRowSilent ==
  [][\A c \in Cycles :
       (/\ pc[c] = "write"
        /\ existing[c]
        /\ Rows(Target(c)) = {}
        /\ <<pc'[c], idx'[c]>> # <<pc[c], idx[c]>>)
       => /\ store' = store \/ Cardinality({r \in store' : r.address = Target(c)}) = 1
          /\ idx[c] < Len(batch[c]) => idx'[c] = idx[c] + 1]_vars

---------------------------------------------------------------------------
(* C22: a failure on one candidate and the rest of the batch *)

\* C22: whatever happens to the candidate a cycle is writing, the cycle
\* keeps its batch and goes on to the next candidate when there is one
C22_FailureSkipsOneCandidate ==
  [][\A c \in Cycles :
       (/\ pc[c] = "write"
        /\ idx[c] < Len(batch[c])
        /\ <<pc'[c], idx'[c]>> # <<pc[c], idx[c]>>)
       => /\ batch'[c] = batch[c]
          /\ idx'[c] = idx[c] + 1
          /\ pc'[c] \in {"find", "write"}]_vars

---------------------------------------------------------------------------
(* C23: the priority order of the recommendation *)

\* C23: a score above 80 gives AVOID and a score above 60 gives MONITOR
\* whatever the volume and the market cap; with a score of at most 60, BUY
\* (volume > 500000 and market cap > 1000000) is tested before HOLD
\* (volume > 100000 and market cap > 500000)
C23_RiskChecksFirst ==
  verdict # NoVerdict =>
    LET score == verdict.riskScore
        buy == subject.volume24h > 500000 /\ subject.marketCap > 1000000
        hold == subject.volume24h > 100000 /\ subject.marketCap > 500000
    IN /\ score > 80 => verdict.recommendation = "AVOID"
       /\ (score > 60 /\ score <= 80) => verdict.recommendation = "MONITOR"
       /\ (score <= 60 /\ buy) => verdict.recommendation = "BUY"
       /\ (score <= 60 /\ ~buy /\ hold) => verdict.recommendation = "HOLD"
       /\ verdict.recommendation \in {"BUY", "HOLD"} => score <= 60

\* C23 witness: a record that meets the BUY thresholds was scored above 60
\* and labelled MONITOR
C23_RiskBeatsUpside ==
  /\ verdict # NoVerdict
  /\ verdict.riskScore > 60
  /\ subject.volume24h > 500000
  /\ subject.marketCap > 1000000
  /\ verdict.recommendation = "MONITOR"

---------------------------------------------------------------------------
(* fetchTokenMetadataFromIPFS (part_003 365-489).  A URI is modelled by its
   scheme, its host, the directories of its path and its last path segment;
   the delays are in seconds. *)

Uri(scheme, host, dir, tail) ==
  [scheme |-> scheme, host |-> host, dir |-> dir, tail |-> tail]

IpfsHashes == {"QmHash"}        \* segments the hash pattern matches

Uris ==
  {Uri(sc, h, d, t) :
     sc \in {"https", "http"},
     h \in {"metadata.rapidlaunch.io", "gateway.pinata.cloud", "ipfs.io",
            "arweave.net"},
     d \in {<<"ipfs">>, <<"metadata">>},
     t \in IpfsHashes \cup {"meta.json"}}

extractIPFSHash(uri) == IF uri.tail \in IpfsHashes THEN uri.tail ELSE Null

Gateways ==
  <<"ipfs.io", "cloudflare-ipfs.com", "dweb.link", "gateway.ipfs.io",
    "ipfs.infura.io">>

gatewayUrls(uri) ==
  IF extractIPFSHash(uri) = Null THEN <<>>
  ELSE [g \in 1..Len(Gateways) |->
          Uri("https", Gateways[g], <<"ipfs">>, extractIPFSHash(uri))]

\* uri.replace(host, to)
replaceHost(uri, host, to) ==
  IF uri.host = host THEN [uri EXCEPT !.host = to] ELSE uri

\* uri.replace('metadata.rapidlaunch.io', 'ipfs.io/ipfs')
rapidToIpfs(uri) ==
  IF uri.host = "metadata.rapidlaunch.io"
  THEN [uri EXCEPT !.host = "ipfs.io", !.dir = <<"ipfs">> \o uri.dir]
  ELSE uri

\* uri.replace('https://metadata.rapidlaunch.io/metadata/',
\*             'https://ipfs.io/ipfs/')
rapidMetadataToIpfs(uri) ==
  IF /\ uri.scheme = "https"
     /\ uri.host = "metadata.rapidlaunch.io"
     /\ Head(uri.dir) = "metadata"
  THEN [uri EXCEPT !.host = "ipfs.io", !.dir = <<"ipfs">> \o Tail(uri.dir)]
  ELSE uri

listedUrls(uri) ==
  <<uri>> \o gatewayUrls(uri)
    \o <<rapidToIpfs(uri), rapidMetadataToIpfs(uri),
         replaceHost(uri, "gateway.pinata.cloud", "ipfs.io"),
         replaceHost(uri, "gateway.pinata.cloud", "cloudflare-ipfs.com")>>

\* .filter((url, index, arr) => arr.indexOf(url) === index)
RECURSIVE removeDuplicates(_, _)
removeDuplicates(arr, seen) ==
  IF arr = <<>> THEN <<>>
  ELSE IF Head(arr) \in seen THEN removeDuplicates(Tail(arr), seen)
  ELSE <<Head(arr)>> \o removeDuplicates(Tail(arr), seen \cup {Head(arr)})

urlsOf(uri) == removeDuplicates(listedUrls(uri), {})

\* Math.pow(2, i) * 1000 ms
retryDelay(i) == 2 ^ i

Answers == {"ok", "429", "error"}      \* of one httpService.get

rethrown(error) == "thrown"

\* the outer catch block: logs and returns null
caught(error) == "null"

IpfsFetch ==
  /\ mfetch = NoFetch
  /\ \E uri \in Uris :
       mfetch' = [outcome |-> "running", uri |-> uri, urls |-> urlsOf(uri),
                  i |-> 0, requests |-> 0, backoff |-> <<>>,
                  lastError |-> Null]
  /\ UNCHANGED <<rev, now, storeVars, cycleVars, metaVars, cleanVars,
                 pureVars, ioVars, insight, image>>

\* one pass of the for-loop: the request and its catch block
IpfsGet ==
  /\ mfetch.outcome = "running"
  /\ mfetch.i < Len(mfetch.urls)
  /\ \E answer \in Answers :
       mfetch' =
         IF answer = "ok"
         THEN [mfetch EXCEPT !.requests = @ + 1, !.outcome = "metadata"]
         ELSE [mfetch EXCEPT
                 !.requests = @ + 1,
                 !.lastError = answer,
                 !.backoff = IF answer = "429"
                             THEN Append(@, retryDelay(mfetch.i)) ELSE @,
                 !.i = @ + 1]
  /\ UNCHANGED <<rev, now, storeVars, cycleVars, metaVars, cleanVars,
                 pureVars, ioVars, insight, image>>

\* throw lastError || new Error('All metadata URLs failed')
IpfsExhausted ==
  /\ mfetch.outcome = "running"
  /\ mfetch.i = Len(mfetch.urls)
  /\ mfetch' = [mfetch EXCEPT !.outcome = caught(mfetch.lastError)]
  /\ UNCHANGED <<rev, now, storeVars, cycleVars, metaVars, cleanVars,
                 pureVars, ioVars, insight, image>>

InitFetch == InitSocket

NextFetch ==
  \/ IpfsFetch
  \/ IpfsGet
  \/ IpfsExhausted

SpecFetch == InitFetch /\ [][NextFetch]_vars

\* every request settles within its 5 s timeout and every delay ends
SpecFetchFair ==
  SpecFetch /\ WF_vars(IpfsGet) /\ WF_vars(IpfsExhausted)

FetchBounded ==
  mfetch # NoFetch =>
    /\ mfetch.requests <= Len(listedUrls(mfetch.uri))
    /\ Len(listedUrls(mfetch.uri)) <= 1 + Len(Gateways) + 4
    /\ mfetch.outcome \in {"running", "metadata", "null"}
    /\ \A k \in 1..Len(mfetch.backoff) :
         /\ \E e \in 0..(Len(mfetch.urls) - 1) : mfetch.backoff[k] = 2 ^ e
         /\ k > 1 => mfetch.backoff[k] > mfetch.backoff[k - 1]

\* C24: a call of fetchTokenMetadataFromIPFS makes at most one request per
\* listed URL, backs off by a growing power of two after each 429, never
\* throws, and always returns the metadata or null
C24_FetchTerminates ==
  /\ []FetchBounded
  /\ (mfetch.outcome = "running") ~> (mfetch.outcome \in {"metadata", "null"})

\* C24 witness: every URL of the list answered 429 and the call returned null
C24_RateLimitedThroughout ==
  /\ mfetch # NoFetch
  /\ mfetch.outcome = "null"
  /\ Len(mfetch.urls) > 1
  /\ Len(mfetch.backoff) = Len(mfetch.urls)

---------------------------------------------------------------------------
(* C25: the delayed update of the socket listener *)

\* C25: whenever a scheduled update of the socket listener runs, the row of
\* its token exists, and the update stores the fetched image, description,
\* twitter, telegram and website in it
C25_TimerFindsRow ==
  [][\A t \in timers \ timers' :
       /\ findUnique(t.mint) # NoRow
       /\ \E r \in Rows(t.mint)' : r = TimerRow(findUnique(t.mint), t)]_vars

---------------------------------------------------------------------------
(* PatternAnalyzerService (analysis/pattern-analyzer.service.ts).  priceUsd
   is in micro-dollars, volume24h and marketCap in dollars; hoursOld is the
   age of the row at the time of the analysis, in whole hours. *)

analysisTake == 50
highPotentialTake == 10

PatternToken(a, p, v, mc, h) ==
  [address |-> a, priceUsd |-> p, volume24h |-> v, marketCap |-> mc,
   hoursOld |-> h]

PatternTokens(a) ==
  {PatternToken(a, p, v, mc, h) :
     p \in {999, 5000, 10000001},
     v \in {-60, 0, 999, 2000000, 10000001},
     mc \in {-500, 50000, 5000000, 60000000},
     h \in {0, 1}}

analyzePricePattern(token) ==
  IF token.priceUsd > 10000000 THEN "spike"
  ELSE IF token.priceUsd < 1000 THEN "dump"
  ELSE "steady"

analyzeVolumePattern(token) ==
  IF token.volume24h > 1000000
  THEN [type |-> "surge", is_suspicious |-> token.volume24h > 10000000]
  ELSE IF token.volume24h < 1000
  THEN [type |-> "decline", is_suspicious |-> FALSE]
  ELSE [type |-> "normal", is_suspicious |-> FALSE]

\* token.marketCap / (token.volume24h || 1) < 5
mcapVolumeRatioBelow5(token) ==
  LET volume == IF token.volume24h = 0 THEN 1 ELSE token.volume24h
  IN IF volume > 0 THEN token.marketCap < 5 * volume
     ELSE token.marketCap > 5 * volume

insiderRiskSum(token) ==
  (IF mcapVolumeRatioBelow5(token) THEN 30 ELSE 0)
    + (IF token.marketCap < 100000 THEN 20 ELSE 0)
    + (IF token.hoursOld < 1 THEN 40 ELSE 0)

analyzeInsiderActivity(token) ==
  LET riskScore == insiderRiskSum(token)
  IN [risk_score |-> Min(riskScore, 100),
      recommendation |-> IF riskScore >= 70 THEN "avoid"
                         ELSE IF riskScore >= 40 THEN "caution"
                         ELSE IF riskScore >= 20 THEN "monitor"
                         ELSE "safe"]

overallSum(pricePattern, volumePattern, insiderActivity) ==
  50 + (IF pricePattern = "spike" THEN 20
        ELSE IF pricePattern = "dump" THEN -30 ELSE 0)
     + (IF volumePattern.type = "surge" /\ ~volumePattern.is_suspicious
        THEN 15
        ELSE IF volumePattern.is_suspicious THEN -25 ELSE 0)
     - insiderActivity.risk_score \div 2

overallSumUnclamped(pricePattern, volumePattern, insiderActivity) ==
  overallSum(pricePattern, volumePattern, insiderActivity)

\* Math.max(0, Math.min(100, score))
calculateOverallScore(pricePattern, volumePattern, insiderActivity) ==
  Max(0, Min(100, overallSum(pricePattern, volumePattern, insiderActivity)))

analyzeToken(token) ==
  LET insiderActivity == analyzeInsiderActivity(token)
  IN [address |-> token.address,
      risk_score |-> insiderActivity.risk_score,
      recommendation |-> insiderActivity.recommendation,
      overall_score |->
        calculateOverallScore(analyzePricePattern(token),
                              analyzeVolumePattern(token), insiderActivity)]

\* findMany({ orderBy: { updatedAt: 'desc' }, take: 50 }) and the for-loop
analyzeTokenPatterns(tokens) ==
  LET found == SkipTake(tokens, 0, analysisTake)
  IN [k \in 1..Len(found) |-> analyzeToken(found[k])]

highPotential(analysis) ==
  analysis.overall_score >= 70 /\ analysis.recommendation # "avoid"

risky(analysis) ==
  analysis.recommendation = "avoid" \/ analysis.overall_score < 30

getHighPotentialTokens(tokens) ==
  SkipTake(SortDesc(SelectSeq(analyzeTokenPatterns(tokens), highPotential),
                    "overall_score"),
           0, highPotentialTake)

getRiskyTokens(tokens) ==
  SortDesc(SelectSeq(analyzeTokenPatterns(tokens), risky), "risk_score")

GetHighPotential ==
  /\ insight # NoInsight
  /\ "high" \notin insight.asked
  /\ insight' = [insight EXCEPT
                   !.asked = @ \cup {"high"},
                   !.analyses = analyzeTokenPatterns(insight.tokens),
                   !.high = getHighPotentialTokens(insight.tokens)]
  /\ UNCHANGED <<rev, now, storeVars, cycleVars, metaVars, cleanVars,
                 pureVars, ioVars, mfetch, image>>

GetRisky ==
  /\ insight # NoInsight
  /\ "risky" \notin insight.asked
  /\ insight' = [insight EXCEPT
                   !.asked = @ \cup {"risky"},
                   !.analyses = analyzeTokenPatterns(insight.tokens),
                   !.risky = getRiskyTokens(insight.tokens)]
  /\ UNCHANGED <<rev, now, storeVars, cycleVars, metaVars, cleanVars,
                 pureVars, ioVars, mfetch, image>>

\* the Token table the analysis reads, newest update first
PatternStores ==
  {<<t>> : t \in PatternTokens("a1")}
    \cup {<<t, u>> : t \in PatternTokens("a1"), u \in PatternTokens("a2")}

InitPattern ==
  /\ rev \in {"v1", "p3"}
  /\ now = 0
  /\ store = {}
  /\ nextId = [a \in Addr |-> 1]
  /\ Quiet
  /\ mfetch = NoFetch /\ image = NoImage
  /\ NoPure
  /\ \E tokens \in PatternStores :
       insight = [address |-> "", tokens |-> tokens, asked |-> {},
                  analyses |-> <<>>, high |-> <<>>, risky |-> <<>>]

NextPattern ==
  \/ GetHighPotential
  \/ GetRisky

SpecPattern == InitPattern /\ [][NextPattern]_vars

\* C26: every analysis has an insider risk_score and an overall_score
\* between 0 and 100, and no token is both in the list of
\* getHighPotentialTokens and in the list of getRiskyTokens computed from the
\* same table
C26_ScoresInRangeListsDisjoint ==
  insight # NoInsight =>
    /\ \A k \in 1..Len(insight.analyses) :
         /\ insight.analyses[k].risk_score \in 0..100
         /\ insight.analyses[k].overall_score \in 0..100
    /\ \A h \in 1..Len(insight.high), r \in 1..Len(insight.risky) :
         insight.high[h].address # insight.risky[r].address

\* C26 witness: both lists were computed and neither is empty, and one
\* overall score was clamped at 0
C26_BothListsFilled ==
  /\ insight # NoInsight
  /\ insight.asked = {"high", "risky"}
  /\ insight.high # <<>>
  /\ insight.risky # <<>>
  /\ \E r \in 1..Len(insight.risky) : insight.risky[r].overall_score = 0

---------------------------------------------------------------------------
(* C27: the size of the batch of a socket session *)

\* C27: the tokens array a socket session resolved with never holds more
\* than maxMessages entries, messages delivered after the socket was asked
\* to close included
C27_BatchAtMostMaxMessages ==
  listener.promise = "resolved" => listener.tokens <= maxMessages

---------------------------------------------------------------------------
(* C28: a socket error during a session *)

\* the step of the listener is the error handler
ErrorStep ==
  /\ listener.ready \in {"CONNECTING", "OPEN"}
  /\ listener'.ready = "CLOSING"
  /\ listener'.tokens = listener.tokens
  /\ listener'.timer = listener.timer

\* C28: a socket error in a pending session rejects it, also when tokens
\* were collected, and a session resolves with fewer than maxMessages
\* tokens only in the close handler or in the timeout callback
C28_ErrorRejectsSession ==
  [][/\ (ErrorStep /\ listener.promise = "pending")
          => listener'.promise = "rejected"
     /\ (/\ listener.promise = "pending"
         /\ listener'.promise = "resolved"
         /\ listener'.tokens < maxMessages)
          => \/ listener.ready # "CLOSED" /\ listener'.ready = "CLOSED"
             \/ listener.timer = "armed" /\ listener'.timer = "fired"]_vars

\* C28 witness: the session was rejected by an error after it had collected
\* tokens, before its timer fired
C28_TokensDiscarded ==
  /\ listener.promise = "rejected"
  /\ listener.tokens - listener.late > 0
  /\ listener.timer = "armed"
  /\ listener.ready = "CLOSING"

---------------------------------------------------------------------------
(* C29: what the update branch of the fetch cycle leaves alone *)

\* the step is one of fetch cycle c
CycleStepOf(c) == <<pc[c], idx[c], batch[c]>>' # <<pc[c], idx[c], batch[c]>>

\* new differs from old in priceUsd, volume24h, marketCap and updatedAt only
NumbersOnly(old, new) ==
  new = [old EXCEPT !.priceUsd = new.priceUsd,
                    !.volume24h = new.volume24h,
                    !.marketCap = new.marketCap,
                    !.updatedAt = new.updatedAt]

\* C29: the update branch of fetchAndStoreLatestTokens changes priceUsd,
\* volume24h, marketCap and updatedAt of the row of its token and nothing
\* else in the table, and no step of a fetch cycle removes the row of an
\* address
C29_UpdateTouchesNumbersOnly ==
  [][\A c \in Cycles :
       CycleStepOf(c) =>
         /\ \A a \in Addr : Rows(a) # {} => Rows(a)' # {}
         /\ (/\ rev \in {"v1", "p3"} /\ pc[c] = "write" /\ existing[c]
             /\ Rows(Target(c)) # {})
              => \E new \in {r \in store' : r.address = Target(c)} :
                   /\ NumbersOnly(findUnique(Target(c)), new)
                   /\ store' \ {new} = store \ {findUnique(Target(c))}]_vars

\* C29 witness: a row that has an image and a twitter link and whose numbers
\* differ from those of the candidate written last, which an update wrote
C29_EnrichedRowUpdated ==
  \E r \in store :
    /\ rev \in {"v1", "p3"}
    /\ Truthy(r.imageUrl)
    /\ Truthy(r.twitter)
    /\ lastCand[r.address] # NoCand
    /\ lastCand[r.address].cand.name # r.name
    /\ r.updatedAt > r.createdAt

---------------------------------------------------------------------------
(* TokenImage (web/src/components/ui/token-image.tsx).  An effect run is
   numbered; the img element it creates and the timeout it arms carry its
   number.  valid, bad and expired record what happened to each src and
   to each timeout. *)

MaxRenders == 3   \* changes of the src prop of one mounted component

Srcs == {"A", "B"}

Mounted(src) ==
  [src |-> src, imageLoaded |-> FALSE, imageFailed |-> FALSE,
   isValidating |-> FALSE, effectDue |-> TRUE, runs |-> 0, renders |-> 0,
   timeout |-> 0, imgs |-> {}, valid |-> {}, bad |-> {}, expired |-> {}]

\* the branch of the render function: the Image element or the placeholder
ShowsImage ==
  image.src # Null /\ image.imageLoaded /\ ~image.imageFailed

\* setImageFailed(true): the effect depends on imageFailed
failedNow ==
  [image EXCEPT !.imageFailed = TRUE, !.isValidating = FALSE,
                !.effectDue = @ \/ ~image.imageFailed]

\* clearTimeout(timeout) in the callbacks of the img element e
clearOwn(e) == IF image.timeout = e.run THEN 0 ELSE image.timeout

\* the parent renders the component with another src
PropChange ==
  /\ image # NoImage
  /\ image.renders < MaxRenders
  /\ \E src \in (Srcs \cup {Null}) \ {image.src} :
       image' = [image EXCEPT !.src = src, !.renders = @ + 1,
                              !.effectDue = TRUE]
  /\ UNCHANGED <<rev, now, storeVars, cycleVars, metaVars, cleanVars,
                 pureVars, ioVars, mfetch, insight>>

\* the cleanup of the previous effect and the effect itself
RunEffect ==
  /\ image # NoImage
  /\ image.effectDue
  /\ image' =
       IF image.src = Null \/ image.imageFailed
       THEN [image EXCEPT !.effectDue = FALSE, !.timeout = 0]
       ELSE [image EXCEPT
               !.effectDue = FALSE,
               !.isValidating = TRUE,
               !.imageLoaded = FALSE,
               !.imageFailed = FALSE,
               !.runs = @ + 1,
               !.imgs = @ \cup {[src |-> image.src, run |-> image.runs + 1]},
               !.timeout = image.runs + 1]
  /\ UNCHANGED <<rev, now, storeVars, cycleVars, metaVars, cleanVars,
                 pureVars, ioVars, mfetch, insight>>

\* img.onload
ImgLoad ==
  /\ image # NoImage
  /\ \E e \in image.imgs :
       image' = [image EXCEPT
                   !.imgs = @ \ {e},
                   !.timeout = clearOwn(e),
                   !.imageLoaded = TRUE,
                   !.isValidating = FALSE,
                   !.valid = IF e.run \in image.expired THEN @
                             ELSE @ \cup {e.src}]
  /\ UNCHANGED <<rev, now, storeVars, cycleVars, metaVars, cleanVars,
                 pureVars, ioVars, mfetch, insight>>

\* img.onerror
ImgError ==
  /\ image # NoImage
  /\ \E e \in image.imgs :
       image' = [failedNow EXCEPT !.imgs = @ \ {e},
                                  !.timeout = clearOwn(e),
                                  !.bad = @ \cup {e.src}]
  /\ UNCHANGED <<rev, now, storeVars, cycleVars, metaVars, cleanVars,
                 pureVars, ioVars, mfetch, insight>>

\* the callback of setTimeout(..., 3000)
ValidationTimeout ==
  /\ image # NoImage
  /\ image.timeout # 0
  /\ image' = [failedNow EXCEPT
                 !.timeout = 0,
                 !.expired = @ \cup {image.timeout},
                 !.bad = @ \cup {e.src : e \in {i \in image.imgs :
                                                   i.run = image.timeout}}]
  /\ UNCHANGED <<rev, now, storeVars, cycleVars, metaVars, cleanVars,
                 pureVars, ioVars, mfetch, insight>>

InitImage ==
  /\ rev \in {"v1", "p3"}
  /\ now = 0
  /\ store = {}
  /\ nextId = [a \in Addr |-> 1]
  /\ Quiet
  /\ mfetch = NoFetch /\ insight = NoInsight
  /\ NoPure
  /\ \E src \in Srcs \cup {Null} : image = Mounted(src)

NextImage ==
  \/ PropChange
  \/ RunEffect
  \/ ImgLoad
  \/ ImgError
  \/ ValidationTimeout

SpecImage == InitImage /\ [][NextImage]_vars

\* the src given now is being validated: its img element is loading and its
\* timeout is armed
BeingValidated ==
  \E e \in image.imgs : e.src = image.src /\ e.run = image.timeout

\* C30: the image is rendered only when the src given now has itself
\* loaded within its validation window, and a src that has neither loaded
\* nor failed is being validated once the effect has run, whatever happened
\* to the srcs given before
C30_OnlyValidatedSrcShown ==
  image # NoImage =>
    /\ ShowsImage => image.src \in image.valid
    /\ (/\ ~image.effectDue
        /\ image.src # Null
        /\ image.src \notin image.valid \cup image.bad)
         => BeingValidated

=============================================================================
